---------------------------- MODULE Spec2Model ----------------------------
(***************************************************************************)
(* A model of the Intel 8080 core of kbernst30/space-invaders:             *)
(* src/src/cpu.rs (Cpu), src/src/bus.rs (Bus), src/src/ops.rs (the opcode  *)
(* table) and src/src/utils.rs (the bit helpers).                          *)
(*                                                                         *)
(* A processor is a record  [af, bc, de, hl, program_counter,              *)
(* stack_pointer, memory].  Each register pair is the 16-bit word of the   *)
(* RegisterPair union; its halves are the two bytes of that word, and     *)
(* which byte parts.lo is depends on the build (see layout below).         *)
(* Memory is the 65536-byte array of Bus, kept as a finite map of its      *)
(* non-zero bytes: an address outside the map holds 0, which is what       *)
(* Bus::new() fills the array with.                                        *)
(***************************************************************************)
EXTENDS Integers, Sequences, FiniteSets, TLC

\* pub type Byte = u8 / pub type Word = u16
Byte == 0..255
Word == 0..65535

\* The number of execute() calls a run makes, and the number of handler calls
\* a run of the tests' kind makes.
MaxSteps == 2
MaxCalls == 1

\* The number of execute() calls a run of an accumulator program makes: the
\* eight rotations of a full turn.
MaxRun == 8

\* The number of execute() calls made on a Cpu that starts zeroed.
MaxZeroSteps == 3

\* The number of stack operations, and of Bus reads and writes, a run makes.
MaxStackCalls == 3
MaxBusCalls == 2

-----------------------------------------------------------------------------
(* utils.rs *)

\* 1 << position
Shl1(position) == 2 ^ position

\* (data & (1 << position)) > 0
is_bit_set(data, position) == (data \div Shl1(position)) % 2 = 1

\* a set_bit that sets the bit above the one named
set_bit_above(data, position) ==
    IF is_bit_set(data, (position + 1) % 8) THEN data
    ELSE data + Shl1((position + 1) % 8)

\* *data |= 1 << position
set_bit(data, position) ==
    IF is_bit_set(data, position) THEN data ELSE data + Shl1(position)

\* *data &= !(1 << position)
reset_bit(data, position) ==
    IF is_bit_set(data, position) THEN data - Shl1(position) ELSE data

\* match (data & (1 << position)) > 0 { true => 1, false => 0 }
get_bit_val(data, position) == IF is_bit_set(data, position) THEN 1 ELSE 0

\* The number of 1 bits of a byte.
PopCount(data) == LET bit(i) == get_bit_val(data, i)
                  IN  bit(0) + bit(1) + bit(2) + bit(3)
                    + bit(4) + bit(5) + bit(6) + bit(7)

\* is_even_parity is called by cpu.rs but its definition is not in utils.rs as
\* given; it is modelled from the specification: "Parity: even number of set
\* bits".
is_even_parity(data) == PopCount(data) % 2 = 0

\* The bitwise operators of Rust on u8: a & b, a | b, a ^ b, !a.
BitAnd(a, b) == LET bit(i) == get_bit_val(a, i) * get_bit_val(b, i)
                IN  bit(0) + 2 * bit(1) + 4 * bit(2) + 8 * bit(3)
                  + 16 * bit(4) + 32 * bit(5) + 64 * bit(6) + 128 * bit(7)

BitXor(a, b) == LET bit(i) == (get_bit_val(a, i) + get_bit_val(b, i)) % 2
                IN  bit(0) + 2 * bit(1) + 4 * bit(2) + 8 * bit(3)
                  + 16 * bit(4) + 32 * bit(5) + 64 * bit(6) + 128 * bit(7)

BitOr(a, b) == a + b - BitAnd(a, b)

BitNot(a) == 255 - a

-----------------------------------------------------------------------------
(* constants.rs: the flag bits of F *)

SIGN_FLAG == 7
ZERO_FLAG == 6
AUXILIARY_CARRY_FLAG == 4
PARITY_FLAG == 2
CARRY_FLAG == 0

-----------------------------------------------------------------------------
(* cpu.rs: union RegisterPair { val: Word, parts: { lo, hi } } *)

\* The union overlays val: u16 with parts: { lo: u8, hi: u8 }.  Neither the
\* union nor RegisterPairParts is #[repr(C)], and the byte order of val is
\* the target's, so the build decides which byte of val parts.lo is: the
\* low-order one (fields in declaration order on a little-endian target) or
\* the high-order one (a big-endian target, or the fields the other way
\* round).  The choice is made once, by the build.
VARIABLE layout

Layouts == {"lo_is_low_byte", "lo_is_high_byte"}

\* parts.hi and parts.lo of a pair whose val is w
Hi(w) == IF layout = "lo_is_low_byte" THEN w \div 256 ELSE w % 256
Lo(w) == IF layout = "lo_is_low_byte" THEN w % 256 ELSE w \div 256

\* val of the pair whose parts are hi and lo
Pair(hi, lo) == IF layout = "lo_is_low_byte" THEN hi * 256 + lo ELSE lo * 256 + hi

\* the pair after parts.hi = b, and after parts.lo = b
SetHi(w, b) == Pair(b, Lo(w))
SetLo(w, b) == Pair(Hi(w), b)

-----------------------------------------------------------------------------
(* bus.rs *)

\* pub const MEMORY_SIZE: Word = 65536, the length of Bus.memory.  The number
\* is the one written; the type written with it, Word, cannot hold it and an
\* array length is a usize, so no build gives the constant another value.
MEMORY_SIZE == 65536

\* the bounds check of self.memory[addr as usize]
index_in_bounds(addr) == 0 <= addr /\ addr < MEMORY_SIZE

\* Bus::new(): memory: [0; MEMORY_SIZE]
NewBus == [x \in {} |-> 0]

\* Bus::read_byte
read_byte(memory, addr) == IF addr \in DOMAIN memory THEN memory[addr] ELSE 0

\* a Bus::write_byte that decodes 13 address lines only
write_byte_mirrored(memory, addr, data) ==
    LET at == addr % 8192 IN
    IF data = 0
    THEN [x \in DOMAIN memory \ {at} |-> memory[x]]
    ELSE [x \in DOMAIN memory \cup {at} |-> IF x = at THEN data ELSE memory[x]]

\* Bus::write_byte
write_byte(memory, addr, data) ==
    IF data = 0
    THEN [x \in DOMAIN memory \ {addr} |-> memory[x]]
    ELSE [x \in DOMAIN memory \cup {addr} |-> IF x = addr THEN data ELSE memory[x]]


-----------------------------------------------------------------------------
(* ops.rs: the opcode table *)

\* OpCode::new(code, mnemonic, operation, len, cycles, alt_cycles = None)
\* an entry whose cycle count is its length
OpCode_counting_bytes(code, mnemonic, operation, len, cycles) ==
    [code |-> code, mnemonic |-> mnemonic, operation |-> operation,
     len |-> len, cycles |-> len]

OpCode(code, mnemonic, operation, len, cycles) ==
    [code |-> code, mnemonic |-> mnemonic, operation |-> operation,
     len |-> len, cycles |-> cycles]

CPU_OP_CODES == <<
    OpCode(  0, "NOP"     , "NOP" , 1,  4),  \* 0x00
    OpCode(  2, "STAX B"  , "STAX", 1,  7),  \* 0x02
    OpCode(  3, "INX B"   , "INX" , 1,  5),  \* 0x03
    OpCode(  4, "INR B"   , "INR" , 1,  5),  \* 0x04
    OpCode(  5, "DCR B"   , "DCR" , 1,  5),  \* 0x05
    OpCode(  7, "RLC"     , "RLC" , 1,  4),  \* 0x07
    OpCode(  9, "DAD B"   , "DAD" , 1, 10),  \* 0x09
    OpCode( 10, "LDAX B"  , "LDAX", 1,  7),  \* 0x0A
    OpCode( 11, "DCX B"   , "DCX" , 1,  5),  \* 0x0B
    OpCode( 12, "INR C"   , "INR" , 1,  5),  \* 0x0C
    OpCode( 13, "DCR C"   , "DCR" , 1,  5),  \* 0x0D
    OpCode( 15, "RRC"     , "RRC" , 1,  4),  \* 0x0F
    OpCode( 18, "STAX D"  , "STAX", 1,  7),  \* 0x12
    OpCode( 19, "INX D"   , "INX" , 1,  5),  \* 0x13
    OpCode( 20, "INR D"   , "INR" , 1,  5),  \* 0x14
    OpCode( 21, "DCR D"   , "DCR" , 1,  5),  \* 0x15
    OpCode( 23, "RAL"     , "RAL" , 1,  4),  \* 0x17
    OpCode( 25, "DAD D"   , "DAD" , 1, 10),  \* 0x19
    OpCode( 26, "LDAX B"  , "LDAX", 1,  7),  \* 0x1A
    OpCode( 27, "DCX D"   , "DCX" , 1,  5),  \* 0x1B
    OpCode( 28, "INR E"   , "INR" , 1,  5),  \* 0x1C
    OpCode( 29, "DCR E"   , "DCR" , 1,  5),  \* 0x1D
    OpCode( 31, "RAR"     , "RAR" , 1,  4),  \* 0x1F
    OpCode( 35, "INX H"   , "INX" , 1,  5),  \* 0x23
    OpCode( 36, "INR H"   , "INR" , 1,  5),  \* 0x24
    OpCode( 37, "DCR H"   , "DCR" , 1,  5),  \* 0x25
    OpCode( 39, "DAA"     , "DAA" , 1,  4),  \* 0x27
    OpCode( 41, "DAD H"   , "DAD" , 1, 10),  \* 0x29
    OpCode( 43, "DCX H"   , "DCX" , 1,  5),  \* 0x2B
    OpCode( 44, "INR L"   , "INR" , 1,  5),  \* 0x2C
    OpCode( 45, "DCR L"   , "DCR" , 1,  5),  \* 0x2D
    OpCode( 47, "CMA"     , "CMA" , 1,  4),  \* 0x2F
    OpCode( 51, "INX SP"  , "INX" , 1,  5),  \* 0x33
    OpCode( 52, "INR M"   , "INR" , 1, 10),  \* 0x34
    OpCode( 53, "DCR M"   , "DCR" , 1, 10),  \* 0x35
    OpCode( 55, "STC"     , "STC" , 1,  4),  \* 0x37
    OpCode( 57, "DAD SP"  , "DAD" , 1, 10),  \* 0x39
    OpCode( 59, "DCX SP"  , "DCX" , 1,  5),  \* 0x3B
    OpCode( 60, "INR A"   , "INR" , 1,  5),  \* 0x3C
    OpCode( 61, "DCR A"   , "DCR" , 1,  5),  \* 0x3D
    OpCode( 63, "CMC"     , "CMC" , 1,  4),  \* 0x3F
    OpCode( 64, "MOV B,B" , "MOV" , 1,  5),  \* 0x40
    OpCode( 65, "MOV B,C" , "MOV" , 1,  5),  \* 0x41
    OpCode( 66, "MOV B,D" , "MOV" , 1,  5),  \* 0x42
    OpCode( 67, "MOV B,E" , "MOV" , 1,  5),  \* 0x43
    OpCode( 68, "MOV B,H" , "MOV" , 1,  5),  \* 0x44
    OpCode( 69, "MOV B,L" , "MOV" , 1,  5),  \* 0x45
    OpCode( 70, "MOV B,M" , "MOV" , 1,  7),  \* 0x46
    OpCode( 71, "MOV B,A" , "MOV" , 1,  5),  \* 0x47
    OpCode( 72, "MOV C,B" , "MOV" , 1,  5),  \* 0x48
    OpCode( 73, "MOV C,C" , "MOV" , 1,  5),  \* 0x49
    OpCode( 74, "MOV C,D" , "MOV" , 1,  5),  \* 0x4A
    OpCode( 75, "MOV C,E" , "MOV" , 1,  5),  \* 0x4B
    OpCode( 76, "MOV C,H" , "MOV" , 1,  5),  \* 0x4C
    OpCode( 77, "MOV C,L" , "MOV" , 1,  5),  \* 0x4D
    OpCode( 78, "MOV C,M" , "MOV" , 1,  7),  \* 0x4E
    OpCode( 79, "MOV C,A" , "MOV" , 1,  5),  \* 0x4F
    OpCode( 80, "MOV D,B" , "MOV" , 1,  5),  \* 0x50
    OpCode( 81, "MOV D,C" , "MOV" , 1,  5),  \* 0x51
    OpCode( 82, "MOV D,D" , "MOV" , 1,  5),  \* 0x52
    OpCode( 83, "MOV D,E" , "MOV" , 1,  5),  \* 0x53
    OpCode( 84, "MOV D,H" , "MOV" , 1,  5),  \* 0x54
    OpCode( 85, "MOV D,L" , "MOV" , 1,  5),  \* 0x55
    OpCode( 86, "MOV D,M" , "MOV" , 1,  7),  \* 0x56
    OpCode( 87, "MOV D,A" , "MOV" , 1,  5),  \* 0x57
    OpCode( 88, "MOV E,B" , "MOV" , 1,  5),  \* 0x58
    OpCode( 89, "MOV E,C" , "MOV" , 1,  5),  \* 0x59
    OpCode( 90, "MOV E,D" , "MOV" , 1,  5),  \* 0x5A
    OpCode( 91, "MOV E,E" , "MOV" , 1,  5),  \* 0x5B
    OpCode( 92, "MOV E,H" , "MOV" , 1,  5),  \* 0x5C
    OpCode( 93, "MOV E,L" , "MOV" , 1,  5),  \* 0x5D
    OpCode( 94, "MOV E,M" , "MOV" , 1,  7),  \* 0x5E
    OpCode( 95, "MOV E,A" , "MOV" , 1,  5),  \* 0x5F
    OpCode( 96, "MOV H,B" , "MOV" , 1,  5),  \* 0x60
    OpCode( 97, "MOV H,C" , "MOV" , 1,  5),  \* 0x61
    OpCode( 98, "MOV H,D" , "MOV" , 1,  5),  \* 0x62
    OpCode( 99, "MOV H,E" , "MOV" , 1,  5),  \* 0x63
    OpCode(100, "MOV H,H" , "MOV" , 1,  5),  \* 0x64
    OpCode(101, "MOV H,L" , "MOV" , 1,  5),  \* 0x65
    OpCode(102, "MOV H,M" , "MOV" , 1,  7),  \* 0x66
    OpCode(103, "MOV H,A" , "MOV" , 1,  5),  \* 0x67
    OpCode(104, "MOV L,B" , "MOV" , 1,  5),  \* 0x68
    OpCode(105, "MOV L,C" , "MOV" , 1,  5),  \* 0x69
    OpCode(106, "MOV L,D" , "MOV" , 1,  5),  \* 0x6A
    OpCode(107, "MOV L,E" , "MOV" , 1,  5),  \* 0x6B
    OpCode(108, "MOV L,H" , "MOV" , 1,  5),  \* 0x6C
    OpCode(109, "MOV L,L" , "MOV" , 1,  5),  \* 0x6D
    OpCode(110, "MOV L,M" , "MOV" , 1,  7),  \* 0x6E
    OpCode(111, "MOV L,A" , "MOV" , 1,  5),  \* 0x6F
    OpCode(112, "MOV M,B" , "MOV" , 1,  7),  \* 0x70
    OpCode(113, "MOV M,C" , "MOV" , 1,  7),  \* 0x71
    OpCode(114, "MOV M,D" , "MOV" , 1,  7),  \* 0x72
    OpCode(115, "MOV M,E" , "MOV" , 1,  7),  \* 0x73
    OpCode(116, "MOV M,H" , "MOV" , 1,  7),  \* 0x74
    OpCode(117, "MOV M,L" , "MOV" , 1,  7),  \* 0x75
    OpCode(119, "MOV M,A" , "MOV" , 1,  7),  \* 0x77
    OpCode(120, "MOV A,B" , "MOV" , 1,  5),  \* 0x78
    OpCode(121, "MOV A,C" , "MOV" , 1,  5),  \* 0x79
    OpCode(122, "MOV A,D" , "MOV" , 1,  5),  \* 0x7A
    OpCode(123, "MOV A,E" , "MOV" , 1,  5),  \* 0x7B
    OpCode(124, "MOV A,H" , "MOV" , 1,  5),  \* 0x7C
    OpCode(125, "MOV A,L" , "MOV" , 1,  5),  \* 0x7D
    OpCode(126, "MOV A,M" , "MOV" , 1,  7),  \* 0x7E
    OpCode(127, "MOV A,A" , "MOV" , 1,  5),  \* 0x7F
    OpCode(128, "ADD B"   , "ADD" , 1,  4),  \* 0x80
    OpCode(129, "ADD C"   , "ADD" , 1,  4),  \* 0x81
    OpCode(130, "ADD D"   , "ADD" , 1,  4),  \* 0x82
    OpCode(131, "ADD E"   , "ADD" , 1,  4),  \* 0x83
    OpCode(132, "ADD H"   , "ADD" , 1,  4),  \* 0x84
    OpCode(133, "ADD L"   , "ADD" , 1,  4),  \* 0x85
    OpCode(134, "ADD M"   , "ADD" , 1,  7),  \* 0x86
    OpCode(135, "ADD A"   , "ADD" , 1,  4),  \* 0x87
    OpCode(136, "ADC B"   , "ADC" , 1,  4),  \* 0x88
    OpCode(137, "ADC C"   , "ADC" , 1,  4),  \* 0x89
    OpCode(138, "ADC D"   , "ADC" , 1,  4),  \* 0x8A
    OpCode(139, "ADC E"   , "ADC" , 1,  4),  \* 0x8B
    OpCode(140, "ADC H"   , "ADC" , 1,  4),  \* 0x8C
    OpCode(141, "ADC L"   , "ADC" , 1,  4),  \* 0x8D
    OpCode(142, "ADC M"   , "ADC" , 1,  7),  \* 0x8E
    OpCode(143, "ADC A"   , "ADC" , 1,  4),  \* 0x8F
    OpCode(144, "SUB B"   , "SUB" , 1,  4),  \* 0x90
    OpCode(145, "SUB C"   , "SUB" , 1,  4),  \* 0x91
    OpCode(146, "SUB D"   , "SUB" , 1,  4),  \* 0x92
    OpCode(147, "SUB E"   , "SUB" , 1,  4),  \* 0x93
    OpCode(148, "SUB H"   , "SUB" , 1,  4),  \* 0x94
    OpCode(149, "SUB L"   , "SUB" , 1,  4),  \* 0x95
    OpCode(150, "SUB M"   , "SUB" , 1,  7),  \* 0x96
    OpCode(151, "SUB A"   , "SUB" , 1,  4),  \* 0x97
    OpCode(152, "SBB B"   , "SBB" , 1,  4),  \* 0x98
    OpCode(153, "SBB C"   , "SBB" , 1,  4),  \* 0x99
    OpCode(154, "SBB D"   , "SBB" , 1,  4),  \* 0x9A
    OpCode(155, "SBB E"   , "SBB" , 1,  4),  \* 0x9B
    OpCode(156, "SBB H"   , "SBB" , 1,  4),  \* 0x9C
    OpCode(157, "SBB L"   , "SBB" , 1,  4),  \* 0x9D
    OpCode(158, "SBB M"   , "SBB" , 1,  7),  \* 0x9E
    OpCode(159, "SBB A"   , "SBB" , 1,  4),  \* 0x9F
    OpCode(160, "ANA B"   , "ANA" , 1,  4),  \* 0xA0
    OpCode(161, "ANA C"   , "ANA" , 1,  4),  \* 0xA1
    OpCode(162, "ANA D"   , "ANA" , 1,  4),  \* 0xA2
    OpCode(163, "ANA E"   , "ANA" , 1,  4),  \* 0xA3
    OpCode(164, "ANA H"   , "ANA" , 1,  4),  \* 0xA4
    OpCode(165, "ANA L"   , "ANA" , 1,  4),  \* 0xA5
    OpCode(166, "ANA M"   , "ANA" , 1,  7),  \* 0xA6
    OpCode(167, "ANA A"   , "ANA" , 1,  4),  \* 0xA7
    OpCode(168, "XRA B"   , "XRA" , 1,  4),  \* 0xA8
    OpCode(169, "XRA C"   , "XRA" , 1,  4),  \* 0xA9
    OpCode(170, "XRA D"   , "XRA" , 1,  4),  \* 0xAA
    OpCode(171, "XRA E"   , "XRA" , 1,  4),  \* 0xAB
    OpCode(172, "XRA H"   , "XRA" , 1,  4),  \* 0xAC
    OpCode(173, "XRA L"   , "XRA" , 1,  4),  \* 0xAD
    OpCode(174, "XRA M"   , "XRA" , 1,  7),  \* 0xAE
    OpCode(175, "XRA A"   , "XRA" , 1,  4),  \* 0xAF
    OpCode(176, "ORA B"   , "ORA" , 1,  4),  \* 0xB0
    OpCode(177, "ORA C"   , "ORA" , 1,  4),  \* 0xB1
    OpCode(178, "ORA D"   , "ORA" , 1,  4),  \* 0xB2
    OpCode(179, "ORA E"   , "ORA" , 1,  4),  \* 0xB3
    OpCode(180, "ORA H"   , "ORA" , 1,  4),  \* 0xB4
    OpCode(181, "ORA L"   , "ORA" , 1,  4),  \* 0xB5
    OpCode(182, "ORA M"   , "ORA" , 1,  7),  \* 0xB6
    OpCode(183, "ORA A"   , "ORA" , 1,  4),  \* 0xB7
    OpCode(184, "CMP B"   , "CMP" , 1,  4),  \* 0xB8
    OpCode(185, "CMP C"   , "CMP" , 1,  4),  \* 0xB9
    OpCode(186, "CMP D"   , "CMP" , 1,  4),  \* 0xBA
    OpCode(187, "CMP E"   , "CMP" , 1,  4),  \* 0xBB
    OpCode(188, "CMP H"   , "CMP" , 1,  4),  \* 0xBC
    OpCode(189, "CMP L"   , "CMP" , 1,  4),  \* 0xBD
    OpCode(190, "CMP M"   , "CMP" , 1,  7),  \* 0xBE
    OpCode(191, "CMP A"   , "CMP" , 1,  4),  \* 0xBF
    OpCode(193, "POP B"   , "POP" , 1, 10),  \* 0xC1
    OpCode(197, "PUSH B"  , "PUSH", 1, 11),  \* 0xC5
    OpCode(209, "POP D"   , "POP" , 1, 10),  \* 0xD1
    OpCode(213, "PUSH D"  , "PUSH", 1, 11),  \* 0xD5
    OpCode(225, "POP H"   , "POP" , 1, 10),  \* 0xE1
    OpCode(227, "XTHL"    , "XTHL", 1, 18),  \* 0xE3
    OpCode(229, "PUSH H"  , "PUSH", 1, 11),  \* 0xE5
    OpCode(235, "XCHG"    , "XCHG", 1,  5),  \* 0xEB
    OpCode(241, "POP PSW" , "POP" , 1, 10),  \* 0xF1
    OpCode(245, "PUSH PSW", "PUSH", 1, 11),  \* 0xF5
    OpCode(249, "SPHL"    , "SPHL", 1,  5)   \* 0xF9
>>

\* a map keyed by the position of an entry in the table
OPCODE_MAP_by_position ==
    [i \in DOMAIN CPU_OP_CODES |-> CPU_OP_CODES[i]]

\* for cpuop in &*CPU_OP_CODES { map.insert(cpuop.code, cpuop); }
\* (an insert replaces an earlier entry with the same key)
OPCODE_MAP ==
    LET codes == {CPU_OP_CODES[i].code : i \in DOMAIN CPU_OP_CODES}
        last(c) == CHOOSE i \in DOMAIN CPU_OP_CODES :
                       /\ CPU_OP_CODES[i].code = c
                       /\ \A j \in DOMAIN CPU_OP_CODES :
                              CPU_OP_CODES[j].code = c => j <= i
    IN  [c \in codes |-> CPU_OP_CODES[last(c)]]

-----------------------------------------------------------------------------
(* cpu.rs: Cpu *)

\* Cpu::new(bus)
NewCpu(bus) ==
    [af |-> 0, bc |-> 0, de |-> 0, hl |-> 0,
     program_counter |-> 0, stack_pointer |-> 0, memory |-> bus]

\* What a call leaves: the processor, the value it returns (an operand byte,
\* a cycle count) and whether it ended in a panic.
Fetched(cpu, data) == [cpu |-> cpu, data |-> data, fault |-> "none"]
Done(cpu) == Fetched(cpu, 0)
Panic(cpu, kind) == [cpu |-> cpu, data |-> 0, fault |-> kind]

\* the panic!("Unexpected code [..] encountered for ..") arm of a handler
Unhandled(cpu) == Panic(cpu, "unhandled")

\* an addition of words that stops at 0xFFFF
saturating_add16(a, b) == IF a + b > 65535 THEN 65535 ELSE a + b

\* u8::wrapping_add, u8::wrapping_sub and u16::wrapping_add
wrapping_add(a, b) == (a + b) % 256
wrapping_sub(a, b) == (a - b) % 256
wrapping_add16(a, b) == (a + b) % 65536
wrapping_sub16(a, b) == (a - b) % 65536

read_memory(cpu, addr) == read_byte(cpu.memory, addr)

write_memory(cpu, addr, data) ==
    [cpu EXCEPT !.memory = write_byte(@, addr, data)]

get_next_byte(cpu) ==
    Fetched([cpu EXCEPT !.program_counter = wrapping_add16(@, 1)],
            read_memory(cpu, cpu.program_counter))

\* push_byte_to_stack that writes at the stack pointer and then decrements it
push_byte_to_stack_postdecrement(cpu, data) ==
    LET c1 == write_memory(cpu, cpu.stack_pointer, data)
    IN  Done([c1 EXCEPT !.stack_pointer = wrapping_sub16(@, 1)])

push_byte_to_stack(cpu, data) ==
    LET c1 == [cpu EXCEPT !.stack_pointer = wrapping_sub16(@, 1)]
    IN  Done(write_memory(c1, c1.stack_pointer, data))

pop_byte_from_stack(cpu) ==
    Fetched([cpu EXCEPT !.stack_pointer = wrapping_add16(@, 1)],
            read_memory(cpu, cpu.stack_pointer))

\* push_word_to_stack that pushes the low byte first
push_word_to_stack_low_first(cpu, data) ==
    push_byte_to_stack(push_byte_to_stack(cpu, data % 256).cpu, data \div 256)

push_word_to_stack(cpu, data) ==
    LET lo == data % 256                 \* data & 0xFF
        hi == data \div 256              \* data >> 8
        c1 == push_byte_to_stack(cpu, hi).cpu
    IN  push_byte_to_stack(c1, lo)

pop_word_from_stack(cpu) ==
    LET lo == pop_byte_from_stack(cpu)
        hi == pop_byte_from_stack(lo.cpu)
    IN  Fetched(hi.cpu, hi.data * 256 + lo.data)   \* ((hi as Word) << 8) | lo

is_zero_flag_set(cpu) == is_bit_set(Lo(cpu.af), ZERO_FLAG)
is_carry_flag_set(cpu) == is_bit_set(Lo(cpu.af), CARRY_FLAG)
is_sign_flag_set(cpu) == is_bit_set(Lo(cpu.af), SIGN_FLAG)
is_auxiliary_carry_flag_set(cpu) == is_bit_set(Lo(cpu.af), AUXILIARY_CARRY_FLAG)
is_parity_flag_set(cpu) == is_bit_set(Lo(cpu.af), PARITY_FLAG)

\* match val { true => set_bit(&mut self.af.parts.lo, F), false => reset_bit(..) }
update_flag(cpu, flag, val) ==
    [cpu EXCEPT !.af = SetLo(@, IF val THEN set_bit(Lo(@), flag)
                                       ELSE reset_bit(Lo(@), flag))]

\* a Parity flag that is set on an odd number of 1 bits
update_parity_flag_inverted(cpu, val) == update_flag(cpu, PARITY_FLAG, ~val)

update_zero_flag(cpu, val) == update_flag(cpu, ZERO_FLAG, val)
update_carry_flag(cpu, val) == update_flag(cpu, CARRY_FLAG, val)
update_sign_flag(cpu, val) == update_flag(cpu, SIGN_FLAG, val)
update_auxiliary_carry_flag(cpu, val) == update_flag(cpu, AUXILIARY_CARRY_FLAG, val)
update_parity_flag(cpu, val) == update_flag(cpu, PARITY_FLAG, val)

(* do_add *)

do_add_operand(cpu, code) ==
    CASE code = 128 -> Fetched(cpu, Hi(cpu.bc))                 \* 0x80
      [] code = 129 -> Fetched(cpu, Lo(cpu.bc))                 \* 0x81
      [] code = 130 -> Fetched(cpu, Hi(cpu.de))                 \* 0x82
      [] code = 131 -> Fetched(cpu, Lo(cpu.de))                 \* 0x83
      [] code = 132 -> Fetched(cpu, Hi(cpu.hl))                 \* 0x84
      [] code = 133 -> Fetched(cpu, Lo(cpu.hl))                 \* 0x85
      [] code = 134 -> Fetched(cpu, read_memory(cpu, cpu.hl))   \* 0x86
      [] code = 135 -> Fetched(cpu, Hi(cpu.af))                 \* 0x87
      [] code = 136 -> Fetched(cpu, Hi(cpu.bc))                 \* 0x88
      [] code = 137 -> Fetched(cpu, Lo(cpu.bc))                 \* 0x89
      [] code = 138 -> Fetched(cpu, Hi(cpu.de))                 \* 0x8A
      [] code = 139 -> Fetched(cpu, Lo(cpu.de))                 \* 0x8B
      [] code = 140 -> Fetched(cpu, Hi(cpu.hl))                 \* 0x8C
      [] code = 141 -> Fetched(cpu, Lo(cpu.hl))                 \* 0x8D
      [] code = 142 -> Fetched(cpu, read_memory(cpu, cpu.hl))   \* 0x8E
      [] code = 143 -> Fetched(cpu, Hi(cpu.af))                 \* 0x8F
      [] code = 198 -> get_next_byte(cpu)                       \* 0xC6
      [] code = 206 -> get_next_byte(cpu)                       \* 0xCE
      [] OTHER -> Unhandled(cpu)

\* add_carry_in with the carry flag added by ADD too (with_carry dropped)
add_carry_in_always(cpu, with_carry) ==
    IF is_carry_flag_set(cpu) THEN 1 ELSE 0

\* let carry = if with_carry && self.is_carry_flag_set() { 1 } else { 0 };
add_carry_in(cpu, with_carry) ==
    IF with_carry /\ is_carry_flag_set(cpu) THEN 1 ELSE 0

\* let res = a_reg as usize + to_add as usize + carry;
add_res(a_reg, to_add, carry) == a_reg + to_add + carry

\* add_carry_out off by one: res >= 0xFF
add_carry_out_from_255(res) == res >= 255

\* update_carry_flag(res > 0xFF)
add_carry_out(res) == res > 255

\* lower_nibble + ((to_add & 0xF) as Word) + carry as Word > 0xF
add_auxiliary_carry(a_reg, to_add, carry) ==
    (a_reg % 16) + (to_add % 16) + carry > 15

do_add(cpu, opcode, with_carry) ==
    LET sel == do_add_operand(cpu, opcode.code) IN
    IF sel.fault # "none" THEN sel ELSE
    LET to_add == sel.data
        carry == add_carry_in(sel.cpu, with_carry)
        a_reg == Hi(sel.cpu.af)
        res == add_res(a_reg, to_add, carry)
        c1 == update_carry_flag(sel.cpu, add_carry_out(res))
        c2 == update_auxiliary_carry_flag(c1, add_auxiliary_carry(a_reg, to_add, carry))
        c3 == [c2 EXCEPT !.af = SetHi(@, res % 256)]
        c4 == update_zero_flag(c3, Hi(c3.af) = 0)
        c5 == update_parity_flag(c4, is_even_parity(Hi(c4.af)))
        c6 == update_sign_flag(c5, is_bit_set(Hi(c5.af), 7))
    IN  Fetched(c6, opcode.cycles)

(* do_sub *)

do_sub_operand(cpu, code) ==
    CASE code = 144 -> Fetched(cpu, Hi(cpu.bc))                 \* 0x90
      [] code = 145 -> Fetched(cpu, Lo(cpu.bc))                 \* 0x91
      [] code = 146 -> Fetched(cpu, Hi(cpu.de))                 \* 0x92
      [] code = 147 -> Fetched(cpu, Lo(cpu.de))                 \* 0x93
      [] code = 148 -> Fetched(cpu, Hi(cpu.hl))                 \* 0x94
      [] code = 149 -> Fetched(cpu, Lo(cpu.hl))                 \* 0x95
      [] code = 150 -> Fetched(cpu, read_memory(cpu, cpu.hl))   \* 0x96
      [] code = 151 -> Fetched(cpu, Hi(cpu.af))                 \* 0x97
      [] code = 152 -> Fetched(cpu, Hi(cpu.bc))                 \* 0x98
      [] code = 153 -> Fetched(cpu, Lo(cpu.bc))                 \* 0x99
      [] code = 154 -> Fetched(cpu, Hi(cpu.de))                 \* 0x9A
      [] code = 155 -> Fetched(cpu, Lo(cpu.de))                 \* 0x9B
      [] code = 156 -> Fetched(cpu, Hi(cpu.hl))                 \* 0x9C
      [] code = 157 -> Fetched(cpu, Lo(cpu.hl))                 \* 0x9D
      [] code = 158 -> Fetched(cpu, read_memory(cpu, cpu.hl))   \* 0x9E
      [] code = 159 -> Fetched(cpu, Hi(cpu.af))                 \* 0x9F
      [] code = 214 -> get_next_byte(cpu)                       \* 0xD6
      [] code = 222 -> get_next_byte(cpu)                       \* 0xDE
      [] OTHER -> Unhandled(cpu)

\* let carry = if with_borrow && self.is_carry_flag_set() {1} else {0};
sub_borrow_in(cpu, with_borrow) ==
    IF with_borrow /\ is_carry_flag_set(cpu) THEN 1 ELSE 0

\* sub_res with saturating_sub in place of wrapping_sub
sub_res_saturating(a_reg, to_sub, carry) ==
    IF a_reg < to_sub + carry THEN 0 ELSE a_reg - to_sub - carry

\* let res = a_reg.wrapping_sub(to_sub).wrapping_sub(carry);
sub_res(a_reg, to_sub, carry) == wrapping_sub(wrapping_sub(a_reg, to_sub), carry)

\* (to_sub as Word) + (carry as Word): an addition of two u16
sub_carry_rhs(to_sub, carry) == to_sub + carry

\* (to_sub & 0xF) + (carry as Byte): an addition of two u8
sub_auxiliary_rhs(to_sub, carry) == (to_sub % 16) + carry

\* An addition that leaves its type's range panics in a build with overflow
\* checks (and wraps in one without).
sub_overflows(to_sub, carry) ==
    \/ sub_carry_rhs(to_sub, carry) > 65535
    \/ sub_auxiliary_rhs(to_sub, carry) > 255

\* update_carry_flag((a_reg as Word) < (to_sub as Word) + (carry as Word))
sub_carry_out(a_reg, to_sub, carry) == a_reg < sub_carry_rhs(to_sub, carry)

\* sub_auxiliary_carry without the borrow: (a_reg & 0xF) < (to_sub & 0xF)
sub_auxiliary_carry_no_borrow(a_reg, to_sub, carry) ==
    (a_reg % 16) < (to_sub % 16)

\* update_auxiliary_carry_flag((a_reg & 0xF) < (to_sub & 0xF) + (carry as Byte))
sub_auxiliary_carry(a_reg, to_sub, carry) ==
    (a_reg % 16) < sub_auxiliary_rhs(to_sub, carry)

do_sub(cpu, opcode, with_borrow) ==
    LET sel == do_sub_operand(cpu, opcode.code) IN
    IF sel.fault # "none" THEN sel ELSE
    LET to_sub == sel.data
        carry == sub_borrow_in(sel.cpu, with_borrow)
        a_reg == Hi(sel.cpu.af)
        res == sub_res(a_reg, to_sub, carry)
        c1 == update_zero_flag(sel.cpu, res = 0)
        c2 == update_parity_flag(c1, is_even_parity(res))
        c3 == update_carry_flag(c2, sub_carry_out(a_reg, to_sub, carry))
        c4 == update_auxiliary_carry_flag(c3, sub_auxiliary_carry(a_reg, to_sub, carry))
        c5 == update_sign_flag(c4, is_bit_set(res, 7))
        c6 == [c5 EXCEPT !.af = SetHi(@, res)]
    IN  IF sub_overflows(to_sub, carry)
        THEN Panic(sel.cpu, "overflow")
        ELSE Fetched(c6, opcode.cycles)

(* do_and, do_xor, do_or *)

do_and_operand(cpu, code) ==
    CASE code = 160 -> Fetched(cpu, Hi(cpu.bc))                 \* 0xA0
      [] code = 161 -> Fetched(cpu, Lo(cpu.bc))                 \* 0xA1
      [] code = 162 -> Fetched(cpu, Hi(cpu.de))                 \* 0xA2
      [] code = 163 -> Fetched(cpu, Lo(cpu.de))                 \* 0xA3
      [] code = 164 -> Fetched(cpu, Hi(cpu.hl))                 \* 0xA4
      [] code = 165 -> Fetched(cpu, Lo(cpu.hl))                 \* 0xA5
      [] code = 166 -> Fetched(cpu, read_memory(cpu, cpu.hl))   \* 0xA6
      [] code = 167 -> Fetched(cpu, Hi(cpu.af))                 \* 0xA7
      [] code = 230 -> get_next_byte(cpu)                       \* 0xE6
      [] OTHER -> Unhandled(cpu)

do_xor_operand(cpu, code) ==
    CASE code = 168 -> Fetched(cpu, Hi(cpu.bc))                 \* 0xA8
      [] code = 169 -> Fetched(cpu, Lo(cpu.bc))                 \* 0xA9
      [] code = 170 -> Fetched(cpu, Hi(cpu.de))                 \* 0xAA
      [] code = 171 -> Fetched(cpu, Lo(cpu.de))                 \* 0xAB
      [] code = 172 -> Fetched(cpu, Hi(cpu.hl))                 \* 0xAC
      [] code = 173 -> Fetched(cpu, Lo(cpu.hl))                 \* 0xAD
      [] code = 174 -> Fetched(cpu, read_memory(cpu, cpu.hl))   \* 0xAE
      [] code = 175 -> Fetched(cpu, Hi(cpu.af))                 \* 0xAF
      [] code = 238 -> get_next_byte(cpu)                       \* 0xEE
      [] OTHER -> Unhandled(cpu)

do_or_operand(cpu, code) ==
    CASE code = 176 -> Fetched(cpu, Hi(cpu.bc))                 \* 0xB0
      [] code = 177 -> Fetched(cpu, Lo(cpu.bc))                 \* 0xB1
      [] code = 178 -> Fetched(cpu, Hi(cpu.de))                 \* 0xB2
      [] code = 179 -> Fetched(cpu, Lo(cpu.de))                 \* 0xB3
      [] code = 180 -> Fetched(cpu, Hi(cpu.hl))                 \* 0xB4
      [] code = 181 -> Fetched(cpu, Lo(cpu.hl))                 \* 0xB5
      [] code = 182 -> Fetched(cpu, read_memory(cpu, cpu.hl))   \* 0xB6
      [] code = 183 -> Fetched(cpu, Hi(cpu.af))                 \* 0xB7
      [] code = 246 -> get_next_byte(cpu)                       \* 0xF6
      [] OTHER -> Unhandled(cpu)

\* logic_flags without update_auxiliary_carry_flag(false)
logic_flags_keeping_auxiliary(cpu) ==
    LET c1 == update_zero_flag(cpu, Hi(cpu.af) = 0)
        c2 == update_parity_flag(c1, is_even_parity(Hi(c1.af)))
        c3 == update_sign_flag(c2, is_bit_set(Hi(c2.af), 7))
    IN  update_carry_flag(c3, FALSE)

\* update_zero_flag; update_parity_flag; update_sign_flag;
\* update_carry_flag(false); update_auxiliary_carry_flag(false)
logic_flags(cpu) ==
    LET c1 == update_zero_flag(cpu, Hi(cpu.af) = 0)
        c2 == update_parity_flag(c1, is_even_parity(Hi(c1.af)))
        c3 == update_sign_flag(c2, is_bit_set(Hi(c2.af), 7))
        c4 == update_carry_flag(c3, FALSE)
    IN  update_auxiliary_carry_flag(c4, FALSE)

do_and(cpu, opcode) ==
    LET sel == do_and_operand(cpu, opcode.code) IN
    IF sel.fault # "none" THEN sel ELSE
    LET c1 == [sel.cpu EXCEPT !.af = SetHi(@, BitAnd(Hi(@), sel.data))]
    IN  Fetched(logic_flags(c1), opcode.cycles)

do_xor(cpu, opcode) ==
    LET sel == do_xor_operand(cpu, opcode.code) IN
    IF sel.fault # "none" THEN sel ELSE
    LET c1 == [sel.cpu EXCEPT !.af = SetHi(@, BitXor(Hi(@), sel.data))]
    IN  Fetched(logic_flags(c1), opcode.cycles)

do_or(cpu, opcode) ==
    LET sel == do_or_operand(cpu, opcode.code) IN
    IF sel.fault # "none" THEN sel ELSE
    LET c1 == [sel.cpu EXCEPT !.af = SetHi(@, BitOr(Hi(@), sel.data))]
    IN  Fetched(logic_flags(c1), opcode.cycles)

(* do_compare *)

do_compare_operand(cpu, code) ==
    CASE code = 184 -> Fetched(cpu, Hi(cpu.bc))                 \* 0xB8
      [] code = 185 -> Fetched(cpu, Lo(cpu.bc))                 \* 0xB9
      [] code = 186 -> Fetched(cpu, Hi(cpu.de))                 \* 0xBA
      [] code = 187 -> Fetched(cpu, Lo(cpu.de))                 \* 0xBB
      [] code = 188 -> Fetched(cpu, Hi(cpu.hl))                 \* 0xBC
      [] code = 189 -> Fetched(cpu, Lo(cpu.hl))                 \* 0xBD
      [] code = 190 -> Fetched(cpu, read_memory(cpu, cpu.hl))   \* 0xBE
      [] code = 191 -> Fetched(cpu, Hi(cpu.af))                 \* 0xBF
      [] code = 254 -> get_next_byte(cpu)                       \* 0xFE
      [] OTHER -> Unhandled(cpu)

\* compare_auxiliary_carry with the sense of an addition's nibble carry
compare_auxiliary_carry_as_add(a_reg, to_cp) == (a_reg % 16) + (to_cp % 16) > 15

\* ((a as SignedWord) & 0xF) - ((to_cp as SignedWord) & 0xF) < 0
compare_auxiliary_carry(a_reg, to_cp) == (a_reg % 16) - (to_cp % 16) < 0

\* do_compare that stores the difference, as do_sub does
do_compare_storing(cpu, opcode) ==
    LET sel == do_compare_operand(cpu, opcode.code) IN
    IF sel.fault # "none" THEN sel ELSE
    LET to_cp == sel.data
        a_reg == Hi(sel.cpu.af)
        comp == wrapping_sub(a_reg, to_cp)
        c1 == update_zero_flag(sel.cpu, a_reg = to_cp)
        c2 == update_parity_flag(c1, is_even_parity(comp))
        c3 == update_sign_flag(c2, is_bit_set(comp, 7))
        c4 == update_carry_flag(c3, a_reg < to_cp)
        c5 == update_auxiliary_carry_flag(c4, (a_reg % 16) - (to_cp % 16) < 0)
    IN  Fetched([c5 EXCEPT !.af = SetHi(@, comp)], opcode.cycles)

do_compare(cpu, opcode) ==
    LET sel == do_compare_operand(cpu, opcode.code) IN
    IF sel.fault # "none" THEN sel ELSE
    LET to_cp == sel.data
        a_reg == Hi(sel.cpu.af)
        comp == wrapping_sub(a_reg, to_cp)
        c1 == update_zero_flag(sel.cpu, a_reg = to_cp)
        c2 == update_parity_flag(c1, is_even_parity(comp))
        c3 == update_sign_flag(c2, is_bit_set(comp, 7))
        c4 == update_carry_flag(c3, a_reg < to_cp)
        c5 == update_auxiliary_carry_flag(c4, compare_auxiliary_carry(a_reg, to_cp))
    IN  Fetched(c5, opcode.cycles)

(* do_complement_accumulator, do_complement_carry, do_set_carry *)

\* a complement that negates: the two's complement of the accumulator
do_complement_accumulator_negating(cpu, opcode) ==
    Fetched([cpu EXCEPT !.af = SetHi(@, wrapping_sub(0, Hi(@)))], opcode.cycles)

do_complement_accumulator(cpu, opcode) ==
    Fetched([cpu EXCEPT !.af = SetHi(@, BitNot(Hi(@)))], opcode.cycles)

do_complement_carry(cpu, opcode) ==
    Fetched(update_carry_flag(cpu, ~is_carry_flag_set(cpu)), opcode.cycles)

do_set_carry(cpu, opcode) ==
    Fetched(update_carry_flag(cpu, TRUE), opcode.cycles)

(* do_decimal_adjust_accumulator *)

\* a decimal adjust whose second step is also taken when the first carried
\* out of bit 7, as the 8080's does
do_decimal_adjust_accumulator_carrying(cpu, opcode) ==
    LET val0 == Hi(cpu.af)
        step1 == is_auxiliary_carry_flag_set(cpu) \/ (val0 % 16) > 9
        c1 == IF step1
              THEN update_auxiliary_carry_flag(cpu, (val0 % 16) + 6 > 15)
              ELSE cpu
        val1 == IF step1 THEN wrapping_add(val0, 6) ELSE val0
        step2 == \/ is_carry_flag_set(c1)
                 \/ (val1 \div 16) > 9
                 \/ (step1 /\ val0 + 6 > 255)
        c2 == IF step2
              THEN update_carry_flag(c1, (step1 /\ val0 + 6 > 255)
                                         \/ ((val1 \div 16) + 6) > 15)
              ELSE c1
        val2 == IF step2 THEN (((val1 \div 16) + 6) % 16) * 16 + (val1 % 16)
                         ELSE val1
        c3 == update_parity_flag(c2, is_even_parity(val2))
        c4 == update_sign_flag(c3, is_bit_set(val2, 7))
        c5 == update_zero_flag(c4, val2 = 0)
    IN  Fetched([c5 EXCEPT !.af = SetHi(@, val2)], opcode.cycles)

do_decimal_adjust_accumulator(cpu, opcode) ==
    LET val0 == Hi(cpu.af)
        step1 == is_auxiliary_carry_flag_set(cpu) \/ (val0 % 16) > 9
        c1 == IF step1
              THEN update_auxiliary_carry_flag(cpu, (val0 % 16) + 6 > 15)
              ELSE cpu
        val1 == IF step1 THEN wrapping_add(val0, 6) ELSE val0
        step2 == is_carry_flag_set(c1) \/ (val1 \div 16) > 9
        c2 == IF step2
              THEN update_carry_flag(c1, ((val1 \div 16) + 6) > 15)
              ELSE c1
        upper == ((val1 \div 16) + 6) % 16
        lower == val1 % 16
        val2 == IF step2 THEN upper * 16 + lower ELSE val1
        c3 == update_parity_flag(c2, is_even_parity(val2))
        c4 == update_sign_flag(c3, is_bit_set(val2, 7))
        c5 == update_zero_flag(c4, val2 = 0)
    IN  Fetched([c5 EXCEPT !.af = SetHi(@, val2)], opcode.cycles)

(* do_decrement, do_increment *)

\* the match of do_decrement: the operand after the decrement, stored back
do_decrement_operand(cpu, code) ==
    CASE code =   5 -> LET val == wrapping_sub(Hi(cpu.bc), 1)                        \* 0x05
                       IN  Fetched([cpu EXCEPT !.bc = SetHi(@, val)], val)
      [] code =  13 -> LET val == wrapping_sub(Lo(cpu.bc), 1)                        \* 0x0D
                       IN  Fetched([cpu EXCEPT !.bc = SetLo(@, val)], val)
      [] code =  21 -> LET val == wrapping_sub(Hi(cpu.de), 1)                        \* 0x15
                       IN  Fetched([cpu EXCEPT !.de = SetHi(@, val)], val)
      [] code =  29 -> LET val == wrapping_sub(Lo(cpu.de), 1)                        \* 0x1D
                       IN  Fetched([cpu EXCEPT !.de = SetLo(@, val)], val)
      [] code =  37 -> LET val == wrapping_sub(Hi(cpu.hl), 1)                        \* 0x25
                       IN  Fetched([cpu EXCEPT !.hl = SetHi(@, val)], val)
      [] code =  45 -> LET val == wrapping_sub(Lo(cpu.hl), 1)                        \* 0x2D
                       IN  Fetched([cpu EXCEPT !.hl = SetLo(@, val)], val)
      [] code =  53 -> LET val == wrapping_sub(read_memory(cpu, cpu.hl), 1)          \* 0x35
                       IN  Fetched(write_memory(cpu, cpu.hl, val), val)
      [] code =  61 -> LET val == wrapping_sub(Hi(cpu.bc), 1)                        \* 0x3D
                       IN  Fetched([cpu EXCEPT !.af = SetHi(@, val)], val)
      [] OTHER -> Unhandled(cpu)

\* update_auxiliary_carry_flag(res & 0xF == 0xF)
decrement_auxiliary_carry(res) == res % 16 = 15

do_decrement(cpu, opcode) ==
    LET sel == do_decrement_operand(cpu, opcode.code) IN
    IF sel.fault # "none" THEN sel ELSE
    LET res == sel.data
        c1 == update_zero_flag(sel.cpu, res = 0)
        c2 == update_sign_flag(c1, is_bit_set(res, 7))
        c3 == update_auxiliary_carry_flag(c2, decrement_auxiliary_carry(res))
        c4 == update_parity_flag(c3, is_even_parity(res))
    IN  Fetched(c4, opcode.cycles)

\* the match of do_increment: the operand after the increment, stored back
do_increment_operand(cpu, code) ==
    CASE code =   4 -> LET val == wrapping_add(Hi(cpu.bc), 1)                        \* 0x04
                       IN  Fetched([cpu EXCEPT !.bc = SetHi(@, val)], val)
      [] code =  12 -> LET val == wrapping_add(Lo(cpu.bc), 1)                        \* 0x0C
                       IN  Fetched([cpu EXCEPT !.bc = SetLo(@, val)], val)
      [] code =  20 -> LET val == wrapping_add(Hi(cpu.de), 1)                        \* 0x14
                       IN  Fetched([cpu EXCEPT !.de = SetHi(@, val)], val)
      [] code =  28 -> LET val == wrapping_add(Lo(cpu.de), 1)                        \* 0x1C
                       IN  Fetched([cpu EXCEPT !.de = SetLo(@, val)], val)
      [] code =  36 -> LET val == wrapping_add(Hi(cpu.hl), 1)                        \* 0x24
                       IN  Fetched([cpu EXCEPT !.hl = SetHi(@, val)], val)
      [] code =  44 -> LET val == wrapping_add(Lo(cpu.hl), 1)                        \* 0x2C
                       IN  Fetched([cpu EXCEPT !.hl = SetLo(@, val)], val)
      [] code =  52 -> LET val == wrapping_add(read_memory(cpu, cpu.hl), 1)          \* 0x34
                       IN  Fetched(write_memory(cpu, cpu.hl, val), val)
      [] code =  60 -> LET val == wrapping_add(Hi(cpu.bc), 1)                        \* 0x3C
                       IN  Fetched([cpu EXCEPT !.af = SetHi(@, val)], val)
      [] OTHER -> Unhandled(cpu)

\* update_auxiliary_carry_flag(res & 0xF == 0)
increment_auxiliary_carry(res) == res % 16 = 0

\* do_increment that also sets Carry when the operand wraps to 0, as an
\* addition of 1 would
do_increment_with_carry(cpu, opcode) ==
    LET sel == do_increment_operand(cpu, opcode.code) IN
    IF sel.fault # "none" THEN sel ELSE
    LET res == sel.data
        c1 == update_zero_flag(sel.cpu, res = 0)
        c2 == update_sign_flag(c1, is_bit_set(res, 7))
        c3 == update_auxiliary_carry_flag(c2, res % 16 = 0)
        c4 == update_parity_flag(c3, is_even_parity(res))
    IN  Fetched(update_carry_flag(c4, res = 0), opcode.cycles)

do_increment(cpu, opcode) ==
    LET sel == do_increment_operand(cpu, opcode.code) IN
    IF sel.fault # "none" THEN sel ELSE
    LET res == sel.data
        c1 == update_zero_flag(sel.cpu, res = 0)
        c2 == update_sign_flag(c1, is_bit_set(res, 7))
        c3 == update_auxiliary_carry_flag(c2, increment_auxiliary_carry(res))
        c4 == update_parity_flag(c3, is_even_parity(res))
    IN  Fetched(c4, opcode.cycles)

(* do_load_accumulator, do_store_accumulator, do_move *)

\* a match of do_load_accumulator without the arm for 0x1A
do_load_accumulator_effect_without_de(cpu, code) ==
    CASE code =  10 -> Done([cpu EXCEPT !.af = SetHi(@, read_memory(cpu, cpu.bc))])
      [] OTHER -> Unhandled(cpu)

do_load_accumulator_effect(cpu, code) ==
    CASE code =  10 -> Done([cpu EXCEPT !.af = SetHi(@, read_memory(cpu, cpu.bc))]) \* 0x0A
      [] code =  26 -> Done([cpu EXCEPT !.af = SetHi(@, read_memory(cpu, cpu.de))]) \* 0x1A
      [] OTHER -> Unhandled(cpu)

do_load_accumulator(cpu, opcode) ==
    LET eff == do_load_accumulator_effect(cpu, opcode.code) IN
    IF eff.fault # "none" THEN eff ELSE Fetched(eff.cpu, opcode.cycles)

do_store_accumulator_effect(cpu, code) ==
    CASE code =   2 -> Done(write_memory(cpu, cpu.bc, Hi(cpu.af)))          \* 0x02
      [] code =  18 -> Done(write_memory(cpu, cpu.de, Hi(cpu.af)))          \* 0x12
      [] OTHER -> Unhandled(cpu)

\* a store that writes the accumulator at the address HL, whatever the code
do_store_accumulator_through_hl(cpu, opcode) ==
    Fetched(write_memory(cpu, cpu.hl, Hi(cpu.af)), opcode.cycles)

\* a store that pushes the accumulator on the stack
do_store_accumulator_pushing(cpu, opcode) ==
    Fetched(push_byte_to_stack(cpu, Hi(cpu.af)).cpu, opcode.cycles)

do_store_accumulator(cpu, opcode) ==
    LET eff == do_store_accumulator_effect(cpu, opcode.code) IN
    IF eff.fault # "none" THEN eff ELSE Fetched(eff.cpu, opcode.cycles)

do_move_effect(cpu, code) ==
    CASE code =  64 -> Done(cpu)                                            \* 0x40
      [] code =  65 -> Done([cpu EXCEPT !.bc = SetHi(@, Lo(cpu.bc))])       \* 0x41
      [] code =  66 -> Done([cpu EXCEPT !.bc = SetHi(@, Hi(cpu.de))])       \* 0x42
      [] code =  67 -> Done([cpu EXCEPT !.bc = SetHi(@, Lo(cpu.de))])       \* 0x43
      [] code =  68 -> Done([cpu EXCEPT !.bc = SetHi(@, Hi(cpu.hl))])       \* 0x44
      [] code =  69 -> Done([cpu EXCEPT !.bc = SetHi(@, Lo(cpu.hl))])       \* 0x45
      [] code =  70 -> Done([cpu EXCEPT !.bc = SetHi(@, read_memory(cpu, cpu.hl))]) \* 0x46
      [] code =  71 -> Done([cpu EXCEPT !.bc = SetHi(@, Hi(cpu.af))])       \* 0x47
      [] code =  72 -> Done([cpu EXCEPT !.bc = SetLo(@, Hi(cpu.bc))])       \* 0x48
      [] code =  73 -> Done(cpu)                                            \* 0x49
      [] code =  74 -> Done([cpu EXCEPT !.bc = SetLo(@, Hi(cpu.de))])       \* 0x4A
      [] code =  75 -> Done([cpu EXCEPT !.bc = SetLo(@, Lo(cpu.de))])       \* 0x4B
      [] code =  76 -> Done([cpu EXCEPT !.bc = SetLo(@, Hi(cpu.hl))])       \* 0x4C
      [] code =  77 -> Done([cpu EXCEPT !.bc = SetLo(@, Lo(cpu.hl))])       \* 0x4D
      [] code =  78 -> Done([cpu EXCEPT !.bc = SetLo(@, read_memory(cpu, cpu.hl))]) \* 0x4E
      [] code =  79 -> Done([cpu EXCEPT !.bc = SetLo(@, Hi(cpu.af))])       \* 0x4F
      [] code =  80 -> Done([cpu EXCEPT !.de = SetHi(@, Hi(cpu.bc))])       \* 0x50
      [] code =  81 -> Done([cpu EXCEPT !.de = SetHi(@, Lo(cpu.bc))])       \* 0x51
      [] code =  82 -> Done(cpu)                                            \* 0x52
      [] code =  83 -> Done([cpu EXCEPT !.de = SetHi(@, Lo(cpu.de))])       \* 0x53
      [] code =  84 -> Done([cpu EXCEPT !.de = SetHi(@, Hi(cpu.hl))])       \* 0x54
      [] code =  85 -> Done([cpu EXCEPT !.de = SetHi(@, Lo(cpu.hl))])       \* 0x55
      [] code =  86 -> Done([cpu EXCEPT !.de = SetHi(@, read_memory(cpu, cpu.hl))]) \* 0x56
      [] code =  87 -> Done([cpu EXCEPT !.de = SetHi(@, Hi(cpu.af))])       \* 0x57
      [] code =  88 -> Done([cpu EXCEPT !.de = SetLo(@, Hi(cpu.bc))])       \* 0x58
      [] code =  89 -> Done([cpu EXCEPT !.de = SetLo(@, Lo(cpu.bc))])       \* 0x59
      [] code =  90 -> Done([cpu EXCEPT !.de = SetLo(@, Hi(cpu.de))])       \* 0x5A
      [] code =  91 -> Done(cpu)                                            \* 0x5B
      [] code =  92 -> Done([cpu EXCEPT !.de = SetLo(@, Hi(cpu.hl))])       \* 0x5C
      [] code =  93 -> Done([cpu EXCEPT !.de = SetLo(@, Lo(cpu.hl))])       \* 0x5D
      [] code =  94 -> Done([cpu EXCEPT !.de = SetLo(@, read_memory(cpu, cpu.hl))]) \* 0x5E
      [] code =  95 -> Done([cpu EXCEPT !.de = SetLo(@, Hi(cpu.af))])       \* 0x5F
      [] code =  96 -> Done([cpu EXCEPT !.hl = SetHi(@, Hi(cpu.bc))])       \* 0x60
      [] code =  97 -> Done([cpu EXCEPT !.hl = SetHi(@, Lo(cpu.bc))])       \* 0x61
      [] code =  98 -> Done([cpu EXCEPT !.hl = SetHi(@, Hi(cpu.de))])       \* 0x62
      [] code =  99 -> Done([cpu EXCEPT !.hl = SetHi(@, Lo(cpu.de))])       \* 0x63
      [] code = 100 -> Done(cpu)                                            \* 0x64
      [] code = 101 -> Done([cpu EXCEPT !.hl = SetHi(@, Lo(cpu.hl))])       \* 0x65
      [] code = 102 -> Done([cpu EXCEPT !.hl = SetHi(@, read_memory(cpu, cpu.hl))]) \* 0x66
      [] code = 103 -> Done([cpu EXCEPT !.hl = SetHi(@, Hi(cpu.af))])       \* 0x67
      [] code = 104 -> Done([cpu EXCEPT !.hl = SetLo(@, Hi(cpu.bc))])       \* 0x68
      [] code = 105 -> Done([cpu EXCEPT !.hl = SetLo(@, Lo(cpu.bc))])       \* 0x69
      [] code = 106 -> Done([cpu EXCEPT !.hl = SetLo(@, Hi(cpu.de))])       \* 0x6A
      [] code = 107 -> Done([cpu EXCEPT !.hl = SetLo(@, Lo(cpu.de))])       \* 0x6B
      [] code = 108 -> Done([cpu EXCEPT !.hl = SetLo(@, Hi(cpu.hl))])       \* 0x6C
      [] code = 109 -> Done(cpu)                                            \* 0x6D
      [] code = 110 -> Done([cpu EXCEPT !.hl = SetLo(@, read_memory(cpu, cpu.hl))]) \* 0x6E
      [] code = 111 -> Done([cpu EXCEPT !.hl = SetLo(@, Hi(cpu.af))])       \* 0x6F
      [] code = 112 -> Done(write_memory(cpu, cpu.hl, Hi(cpu.bc)))          \* 0x70
      [] code = 113 -> Done(write_memory(cpu, cpu.hl, Lo(cpu.bc)))          \* 0x71
      [] code = 114 -> Done(write_memory(cpu, cpu.hl, Hi(cpu.de)))          \* 0x72
      [] code = 115 -> Done(write_memory(cpu, cpu.hl, Lo(cpu.de)))          \* 0x73
      [] code = 116 -> Done(write_memory(cpu, cpu.hl, Hi(cpu.hl)))          \* 0x74
      [] code = 117 -> Done(write_memory(cpu, cpu.hl, Lo(cpu.hl)))          \* 0x75
      [] code = 119 -> Done(write_memory(cpu, cpu.hl, Hi(cpu.af)))          \* 0x77
      [] code = 120 -> Done([cpu EXCEPT !.af = SetHi(@, Hi(cpu.bc))])       \* 0x78
      [] code = 121 -> Done([cpu EXCEPT !.af = SetHi(@, Lo(cpu.bc))])       \* 0x79
      [] code = 122 -> Done([cpu EXCEPT !.af = SetHi(@, Hi(cpu.de))])       \* 0x7A
      [] code = 123 -> Done([cpu EXCEPT !.af = SetHi(@, Lo(cpu.de))])       \* 0x7B
      [] code = 124 -> Done([cpu EXCEPT !.af = SetHi(@, Hi(cpu.hl))])       \* 0x7C
      [] code = 125 -> Done([cpu EXCEPT !.af = SetHi(@, Lo(cpu.hl))])       \* 0x7D
      [] code = 126 -> Done([cpu EXCEPT !.af = SetHi(@, read_memory(cpu, cpu.hl))]) \* 0x7E
      [] code = 127 -> Done(cpu)                                            \* 0x7F
      [] OTHER -> Unhandled(cpu)

\* a move that also clears the flag byte
do_move_clearing_flags(cpu, opcode) ==
    LET eff == do_move_effect(cpu, opcode.code) IN
    IF eff.fault # "none" THEN eff
    ELSE Fetched([eff.cpu EXCEPT !.af = SetLo(@, 0)], opcode.cycles)

do_move(cpu, opcode) ==
    LET eff == do_move_effect(cpu, opcode.code) IN
    IF eff.fault # "none" THEN eff ELSE Fetched(eff.cpu, opcode.cycles)

(* do_rotate_left, do_rotate_right *)

\* a left rotation that leaves the Carry flag as it was
do_rotate_left_keeping_carry(cpu, opcode, through_carry) ==
    LET most_significant_bit == get_bit_val(Hi(cpu.af), 7)
        new_least_significant_bit ==
            IF through_carry THEN get_bit_val(Lo(cpu.af), CARRY_FLAG)
                             ELSE most_significant_bit
    IN  Fetched([cpu EXCEPT !.af =
                    SetHi(@, BitOr((Hi(@) * 2) % 256, new_least_significant_bit))],
                opcode.cycles)

\* a left shift: bit 0 is filled with 0
do_rotate_left_shifting(cpu, opcode, through_carry) ==
    LET most_significant_bit == get_bit_val(Hi(cpu.af), 7)
        c1 == [cpu EXCEPT !.af = SetHi(@, (Hi(@) * 2) % 256)]
    IN  Fetched(update_carry_flag(c1, most_significant_bit = 1), opcode.cycles)

do_rotate_left(cpu, opcode, through_carry) ==
    LET most_significant_bit == get_bit_val(Hi(cpu.af), 7)
        new_least_significant_bit ==
            IF through_carry THEN get_bit_val(Lo(cpu.af), CARRY_FLAG)
                             ELSE most_significant_bit
        \* (self.af.parts.hi << 1) | new_least_significant_bit
        c1 == [cpu EXCEPT !.af =
                  SetHi(@, BitOr((Hi(@) * 2) % 256, new_least_significant_bit))]
    IN  Fetched(update_carry_flag(c1, most_significant_bit = 1), opcode.cycles)

\* a right rotation that never goes through the Carry flag
do_rotate_right_around(cpu, opcode, through_carry) ==
    LET least_significant_bit == get_bit_val(Hi(cpu.af), 0)
        c1 == [cpu EXCEPT !.af =
                  SetHi(@, BitOr(least_significant_bit * 128, Hi(@) \div 2))]
    IN  Fetched(update_carry_flag(c1, least_significant_bit = 1), opcode.cycles)

do_rotate_right(cpu, opcode, through_carry) ==
    LET least_significant_bit == get_bit_val(Hi(cpu.af), 0)
        new_most_significant_bit ==
            IF through_carry THEN get_bit_val(Lo(cpu.af), CARRY_FLAG)
                             ELSE least_significant_bit
        \* (new_most_significant_bit << 7) | (self.af.parts.hi >> 1)
        c1 == [cpu EXCEPT !.af =
                  SetHi(@, BitOr(new_most_significant_bit * 128, Hi(@) \div 2))]
    IN  Fetched(update_carry_flag(c1, least_significant_bit = 1), opcode.cycles)

(* The state: one Cpu with its Bus, the record of the calls made on it, *)
(* a second Cpu, and the frame Emulator::run is in.                      *)

VARIABLES
    af, bc, de, hl,       \* the register pairs (RegisterPair.val)
    program_counter,
    stack_pointer,
    memory,               \* Bus.memory
    fault,                \* "none", or the panic that ended the process
    calls,                \* per call: how it was made, the byte or code, the
                          \* processor before it, what it returned, its panic
                          \* and what the panic message reports
    twin,                 \* a second Cpu of the same build, started in the
                          \* same state: [cpu, fault, calls]
    frame                 \* Emulator::run: the paused field, the budget
                          \* MAX_CYCLES_PER_FRAME, the local frame_cycles and
                          \* where the call is at

(* execute *)

\* the arms of match opcode.operation; the last arm is
\* _ => panic!("Unexpected opcode 0x{:02X} encountered", op)
dispatch(cpu, opcode) ==
    CASE opcode.operation = "ADD" -> do_add(cpu, opcode, FALSE)
      [] opcode.operation = "ADC" -> do_add(cpu, opcode, TRUE)
      [] opcode.operation = "ANA" -> do_and(cpu, opcode)
      [] opcode.operation = "CMA" -> do_complement_accumulator(cpu, opcode)
      [] opcode.operation = "CMC" -> do_complement_carry(cpu, opcode)
      [] opcode.operation = "DAA" -> do_decimal_adjust_accumulator(cpu, opcode)
      [] opcode.operation = "DCR" -> do_decrement(cpu, opcode)
      [] opcode.operation = "INR" -> do_increment(cpu, opcode)
      [] opcode.operation = "LDAX" -> do_load_accumulator(cpu, opcode)
      [] opcode.operation = "MOV" -> do_move(cpu, opcode)
      [] opcode.operation = "NOP" -> Fetched(cpu, opcode.cycles)
      [] opcode.operation = "RAL" -> do_rotate_left(cpu, opcode, TRUE)
      [] opcode.operation = "RAR" -> do_rotate_right(cpu, opcode, TRUE)
      [] opcode.operation = "RLC" -> do_rotate_left(cpu, opcode, FALSE)
      [] opcode.operation = "RRC" -> do_rotate_right(cpu, opcode, FALSE)
      [] opcode.operation = "SBB" -> do_sub(cpu, opcode, TRUE)
      [] opcode.operation = "STAX" -> do_store_accumulator(cpu, opcode)
      [] opcode.operation = "STC" -> do_set_carry(cpu, opcode)
      [] opcode.operation = "SUB" -> do_sub(cpu, opcode, FALSE)
      [] opcode.operation = "XRA" -> do_xor(cpu, opcode)
      [] OTHER -> Panic(cpu, "unexpected")

\* an execute that dispatches without advancing the program counter
execute_dispatching_in_place(cpu) ==
    LET op == read_memory(cpu, cpu.program_counter) IN
    IF op \notin DOMAIN OPCODE_MAP
    THEN Panic(cpu, "unrecognized")
    ELSE dispatch(cpu, OPCODE_MAP[op])

\* an execute that advances the program counter before it looks the byte up
execute_advancing_first(cpu) ==
    LET op == read_memory(cpu, cpu.program_counter)
        c1 == [cpu EXCEPT !.program_counter = wrapping_add16(@, 1)]
    IN  IF op \notin DOMAIN OPCODE_MAP
        THEN Panic(c1, "unrecognized")
        ELSE dispatch(c1, OPCODE_MAP[op])

\* an execute whose cycle count includes a counter kept outside the Cpu: the
\* calls made so far on the first processor
execute_with_call_counter(cpu) ==
    LET op == read_memory(cpu, cpu.program_counter) IN
    IF op \notin DOMAIN OPCODE_MAP
    THEN Panic(cpu, "unrecognized")
    ELSE LET out == dispatch([cpu EXCEPT !.program_counter = wrapping_add16(@, 1)],
                             OPCODE_MAP[op])
         IN  [out EXCEPT !.data = @ + Len(calls)]

\* Cpu::execute: the processor, the cycles returned and the panic, if any.
\* OPCODE_MAP.get(&op).expect(..) panics before the program counter moves.
execute(cpu) ==
    LET op == read_memory(cpu, cpu.program_counter) IN
    IF op \notin DOMAIN OPCODE_MAP
    THEN Panic(cpu, "unrecognized")
    ELSE dispatch([cpu EXCEPT !.program_counter = wrapping_add16(@, 1)],
                  OPCODE_MAP[op])

\* A handler called on its own with an entry of the table, as the tests of
\* cpu.rs call it: let opcode = OPCODE_MAP.get(&code).unwrap(); cpu.do_x(&opcode)
handler(cpu, opcode) ==
    CASE opcode.operation = "CMP" -> do_compare(cpu, opcode)
      [] opcode.operation = "ORA" -> do_or(cpu, opcode)
      [] OTHER -> dispatch(cpu, opcode)

-----------------------------------------------------------------------------
(* The state machine. *)

vars == <<af, bc, de, hl, program_counter, stack_pointer, memory, fault, calls,
          layout, twin, frame>>

\* the Cpu the variables hold
Cur ==
    [af |-> af, bc |-> bc, de |-> de, hl |-> hl,
     program_counter |-> program_counter, stack_pointer |-> stack_pointer,
     memory |-> memory]

\* What the message of a panic reports, by name: the expect of execute()
\* formats op and self.program_counter, the last arm of its match formats op
\* only, the last arm of a handler's match formats opcode.code only, and the
\* messages of the runtime (overflow, index) format neither.
panic_report(kind, op, cpu) ==
    CASE kind = "unrecognized" ->
             [n \in {"byte", "pc"} |->
                 IF n = "byte" THEN op ELSE cpu.program_counter]
      [] kind \in {"unexpected", "unhandled"} -> [n \in {"byte"} |-> op]
      [] OTHER -> [n \in {} |-> 0]

\* the processor and the record of calls after a call that left `out`
Leaves(out, how, op) ==
    /\ af' = out.cpu.af
    /\ bc' = out.cpu.bc
    /\ de' = out.cpu.de
    /\ hl' = out.cpu.hl
    /\ program_counter' = out.cpu.program_counter
    /\ stack_pointer' = out.cpu.stack_pointer
    /\ memory' = out.cpu.memory
    /\ fault' = out.fault
    /\ calls' = Append(calls, [how |-> how, op |-> op, pre |-> Cur,
                               cycles |-> out.data, fault |-> out.fault,
                               report |-> panic_report(out.fault, op, out.cpu)])
    /\ layout' = layout
    /\ twin' = twin

\* the variables after a call made outside Emulator::run
Becomes(out, how, op) ==
    /\ Leaves(out, how, op)
    /\ frame' = frame

\* The bytes the registers are drawn from: the ends of the byte range, of
\* each nibble and of the sign bit, and the operands of the tests of cpu.rs.
RegBytes == <<0, 1, 15, 16, 127, 128, 208, 255>>

\* The accumulator values: RegBytes, the decimal-adjust test value 0x9B and
\* 0x2F (which with 0xD1 sums to 0x100).
AccBytes == {0, 1, 15, 16, 47, 127, 128, 155, 208, 255}

\* The flag bytes F: only bits 7, 6, 4, 2 and 0 are ever written, and Zero is
\* never left set together with Sign or without Parity.
FlagBytes == {0, 1, 17, 68, 149}

\* B, C, D, E, H, L and the byte at HL are seven consecutive entries of
\* RegBytes, starting at entry k (cyclically): every register takes every
\* value, and no two registers hold the same one.
RegByte(k, i) == RegBytes[((k + i) % Len(RegBytes)) + 1]

\* an instruction that writes a half of a pair, then one that addresses memory
\* by the pair: INR L; MOV A,M.  MOV H,E; MOV A,M.  INR C; LDAX B.
\* DCR D; STAX D.
PairPrograms == {<<44, 126>>, <<99, 126>>, <<12, 10>>, <<21, 18>>}

\* The programs: every single byte (the memory after it is 0, NOP, unless a
\* pair addresses it), each
\* SUB r followed by ADD r, each DCR r followed by INR r, the PairPrograms,
\* and NOP or INR B followed by a byte the table does not hold (0x76, 0xC6).
Programs ==
    {<<b>> : b \in Byte}
    \cup {<<144 + r, 128 + r>> : r \in 0..7}
    \cup {<<5 + 8 * r, 4 + 8 * r>> : r \in 0..7}
    \cup PairPrograms
    \cup {<<0, 118>>, <<4, 198>>}

\* the memory the loader leaves: the program from address `origin` on, over
\* the `data`
Loaded(program, origin, data) ==
    LET load[i \in 0..Len(program)] ==
            IF i = 0 THEN data
            ELSE write_byte(load[i - 1], (origin + i - 1) % MEMORY_SIZE, program[i])
    IN  load[Len(program)]

\* the bytes the pairs address: RegByte(k, 6) at HL, RegByte(k, 7) at BC and
\* its complement at DE
PairData(k) ==
    write_byte(write_byte(write_byte(NewBus, de, BitNot(RegByte(k, 7))),
                          bc, RegByte(k, 7)),
               hl, RegByte(k, 6))

\* Cpu::new(bus), with registers and flags at values a program can have left
\* and the program counter at the program
InitCpu(a, f, k, program, origin) ==
    /\ layout \in Layouts
    /\ af = Pair(a, f)
    /\ bc = Pair(RegByte(k, 0), RegByte(k, 1))
    /\ de = Pair(RegByte(k, 2), RegByte(k, 3))
    /\ hl = Pair(RegByte(k, 4), RegByte(k, 5))
    /\ program_counter = origin
    /\ stack_pointer = 0
    /\ memory = Loaded(program, origin, PairData(k))
    /\ fault = "none"
    /\ calls = << >>
    /\ twin = [cpu |-> Cur, fault |-> "none", calls |-> << >>]

\* an Emulator whose run has not been called
NoFrame ==
    [paused |-> FALSE, MAX_CYCLES_PER_FRAME |-> 0, frame_cycles |-> 0,
     at |-> "idle"]

InitAt(a, f, k, program, origin) ==
    /\ InitCpu(a, f, k, program, origin)
    /\ frame = NoFrame

\* the program at address 0
InitWith(a, f, k, program) == InitAt(a, f, k, program, 0)

Init ==
    \E a \in AccBytes, f \in FlagBytes, k \in 0..(Len(RegBytes) - 1),
       program \in Programs :
        InitWith(a, f, k, program)

\* One call of Cpu::execute, as Emulator::run makes it.
Execute ==
    /\ fault = "none"
    /\ Len(calls) < MaxSteps
    /\ Becomes(execute(Cur), "execute", read_memory(Cur, program_counter))

Next == Execute

Spec == Init /\ [][Next]_vars

\* One call of Cpu::execute on the second processor.
ExecuteTwin ==
    /\ twin.fault = "none"
    /\ Len(twin.calls) < MaxSteps
    /\ LET out == execute(twin.cpu) IN
           twin' = [cpu |-> out.cpu,
                    fault |-> out.fault,
                    calls |-> Append(twin.calls,
                        [how |-> "execute",
                         op |-> read_memory(twin.cpu, twin.cpu.program_counter),
                         pre |-> twin.cpu,
                         cycles |-> out.data,
                         fault |-> out.fault,
                         report |-> panic_report(out.fault,
                             read_memory(twin.cpu, twin.cpu.program_counter),
                             out.cpu)])]
    /\ UNCHANGED <<af, bc, de, hl, program_counter, stack_pointer, memory,
                   fault, calls, layout, frame>>

\* Two processors with the same registers, flags, PC, SP and memory.
InitTwin ==
    \E a \in AccBytes, f \in FlagBytes, program \in Programs :
        InitWith(a, f, 0, program)

NextTwin == Execute \/ ExecuteTwin

SpecTwin == InitTwin /\ [][NextTwin]_vars

\* The origins of a program that runs into the end of the address space.
Origins == {65534, 65535}

\* The program counter at a program that ends at 0xFFFF or goes on at 0.
InitHigh ==
    \E a \in AccBytes, f \in FlagBytes, program \in Programs, origin \in Origins :
        InitAt(a, f, 0, program, origin)

NextHigh == Execute

SpecHigh == InitHigh /\ [][NextHigh]_vars

\* The flag bytes of the accumulator programs: every combination of Carry
\* and Auxiliary Carry, and the bytes of FlagBytes.
AccFlagBytes == FlagBytes \cup {16}

\* The accumulator programs: DAA; RLC eight times; RRC; RAL; RAR; CMA twice;
\* CMC twice; STC; RAL, RAR; RAR, RAL; RLC, RRC; RRC, RLC.  The memory after
\* a program is 0, NOP, unless a pair addresses it.
AccPrograms ==
    {<<39>>, <<7, 7, 7, 7, 7, 7, 7, 7>>, <<15>>, <<23>>, <<31>>,
     <<47, 47>>, <<63, 63>>, <<55>>,
     <<23, 31>>, <<31, 23>>, <<7, 15>>, <<15, 7>>}

\* Every accumulator value, before an accumulator program.
InitAcc ==
    \E a \in Byte, f \in AccFlagBytes, program \in AccPrograms :
        InitWith(a, f, 0, program)

\* One call of Cpu::execute in a run of an accumulator program.
Run ==
    /\ fault = "none"
    /\ Len(calls) < MaxRun
    /\ Becomes(execute(Cur), "execute", read_memory(Cur, program_counter))

NextAcc == Run

SpecAcc == InitAcc /\ [][NextAcc]_vars

\* The words pushed and the bytes pushed.
StackWords == {0, 1, 255, 256, 4660, 65535}
StackBytes == {0, 208, 255}

\* Cpu::new(bus): the stack pointer is 0, the memory holds the PairData.
InitStack == InitWith(0, 0, 0, << >>)

\* The stack operations of Cpu, each called on its own.
PushByte ==
    /\ fault = "none"
    /\ Len(calls) < MaxStackCalls
    /\ \E data \in StackBytes :
           Becomes(push_byte_to_stack(Cur, data), "push_byte_to_stack", <<data>>)

PopByte ==
    /\ fault = "none"
    /\ Len(calls) < MaxStackCalls
    /\ Becomes(pop_byte_from_stack(Cur), "pop_byte_from_stack", << >>)

PushWord ==
    /\ fault = "none"
    /\ Len(calls) < MaxStackCalls
    /\ \E data \in StackWords :
           Becomes(push_word_to_stack(Cur, data), "push_word_to_stack", <<data>>)

PopWord ==
    /\ fault = "none"
    /\ Len(calls) < MaxStackCalls
    /\ Becomes(pop_word_from_stack(Cur), "pop_word_from_stack", << >>)

NextStack == PushByte \/ PopByte \/ PushWord \/ PopWord

SpecStack == InitStack /\ [][NextStack]_vars

\* The addresses read and written: the ends of the address space, of the ROM
\* (0x1FFF, 0x2000) and of its halves; and the bytes written.
BusAddrs == {0, 1, 8191, 8192, 32767, 32768, 65534, 65535}
BusBytes == {0, 1, 208, 255}

\* a Bus with the PairData written
InitBus == InitWith(0, 0, 0, << >>)

\* Bus::write_byte(addr, data) and Bus::read_byte(addr), with the bounds
\* check indexing the array makes.
WriteByte ==
    /\ fault = "none"
    /\ Len(calls) < MaxBusCalls
    /\ \E addr \in BusAddrs, data \in BusBytes :
           Becomes(IF index_in_bounds(addr)
                   THEN Done([Cur EXCEPT !.memory = write_byte(@, addr, data)])
                   ELSE Panic(Cur, "index"),
                   "write_byte", <<addr, data>>)

ReadByte ==
    /\ fault = "none"
    /\ Len(calls) < MaxBusCalls
    /\ \E addr \in BusAddrs :
           Becomes(IF index_in_bounds(addr)
                   THEN Fetched(Cur, read_byte(memory, addr))
                   ELSE Panic(Cur, "index"),
                   "read_byte", <<addr>>)

NextBus == WriteByte \/ ReadByte

SpecBus == InitBus /\ [][NextBus]_vars

\* The per-frame budgets.  MAX_CYCLES_PER_FRAME is a constant the sources do
\* not hold; the budgets are one below, at and one above sums of the cycle
\* counts 4, 5 and 7.
Budgets == {1, 4, 17, 28, 33}

\* The memory images of a frame: all NOP (4 cycles); one instruction of
\* each handler, a byte execute() has no arm for (INX B, ORA B, XTHL) or a
\* byte the table does not hold (0x76, 0xC6), each followed by NOPs; runs of
\* MOV A,M (7 cycles), of INR B (5) and of NOP ended by MOV A,M; a byte the
\* table does not hold after a NOP, ORA B after two; STAX B; LDAX B; CMA.
FrameImages ==
    {<<b>> : b \in {0, 2, 3, 4, 7, 10, 15, 23, 31, 39, 47, 53, 55, 63, 118,
                    126, 134, 142, 150, 158, 166, 174, 176, 198, 227}}
    \cup {<<126, 126, 126, 126, 126>>,
          <<4, 4, 4, 4, 4, 4, 4>>,
          <<0, 0, 0, 0, 0, 0, 0, 0, 126>>,
          <<0, 118>>,
          <<0, 0, 176>>,
          <<2, 10, 47>>}

\* Emulator::new: the Bus loaded, the Cpu constructed and reset (PC = 0,
\* SP = 0), paused either way; run is about to be called.
InitFrame ==
    \E image \in FrameImages, paused \in BOOLEAN, budget \in Budgets :
        /\ InitCpu(155, 17, 2, image, 0)
        /\ frame = [paused |-> paused, MAX_CYCLES_PER_FRAME |-> budget,
                    frame_cycles |-> 0, at |-> "call"]

\* a loop that also runs when the count has reached the budget
frame_continues_at_budget(frame_cycles, budget) == frame_cycles <= budget

\* while frame_cycles < MAX_CYCLES_PER_FRAME
frame_continues(frame_cycles, budget) == frame_cycles < budget

\* let mut frame_cycles = 0; if !self.paused { .. }
RunCall ==
    /\ frame.at = "call"
    /\ frame' = [frame EXCEPT !.frame_cycles = 0,
                              !.at = IF ~frame.paused THEN "while" ELSE "return"]
    /\ UNCHANGED <<af, bc, de, hl, program_counter, stack_pointer, memory,
                   fault, calls, layout, twin>>

\* one turn of the loop: let cycles = self.cpu.execute();
\* frame_cycles += cycles as usize.  A panic of execute() ends the process.
RunExecute ==
    /\ frame.at = "while"
    /\ fault = "none"
    /\ frame_continues(frame.frame_cycles, frame.MAX_CYCLES_PER_FRAME)
    /\ LET out == execute(Cur) IN
           /\ Leaves(out, "execute", read_memory(Cur, program_counter))
           /\ frame' = IF out.fault = "none"
                       THEN [frame EXCEPT !.frame_cycles = @ + out.data]
                       ELSE frame

\* the loop condition is false: run returns
RunReturn ==
    /\ frame.at = "while"
    /\ fault = "none"
    /\ ~frame_continues(frame.frame_cycles, frame.MAX_CYCLES_PER_FRAME)
    /\ frame' = [frame EXCEPT !.at = "return"]
    /\ UNCHANGED <<af, bc, de, hl, program_counter, stack_pointer, memory,
                   fault, calls, layout, twin>>

NextFrame == RunCall \/ RunExecute \/ RunReturn

\* One call of Emulator::run.  The process is the only thread and nothing
\* suspends it: a step that can be taken is taken.
SpecFrame == InitFrame /\ [][NextFrame]_vars /\ WF_vars(NextFrame)

\* The end of the ROM, 0x2000, and the size of one of its four files, 0x0800.
ROM_END == 8192
ROM_FILE_SIZE == 2048

\* fs::read(path): the bytes of a file, or an Err when there is none.  The
\* bytes of a file are seed, seed + 1, .. (mod 256).
RomFile(seed, n) ==
    [found |-> TRUE, bytes |-> [i \in 0..(n - 1) |-> (seed + i) % 256]]

NoFile == [found |-> FALSE, bytes |-> [i \in {} |-> 0]]

\* The four files rom/invaders.h, .g, .f and .e: of 0x0800 bytes each, with
\* every choice of seeds; and a set with a short invaders.h, one with a long
\* invaders.e and one without invaders.g.
RomSeeds == {17, 102, 203}

RomSets ==
    {[h |-> RomFile(sh, ROM_FILE_SIZE), g |-> RomFile(sg, ROM_FILE_SIZE),
      f |-> RomFile(sf, ROM_FILE_SIZE), e |-> RomFile(se, ROM_FILE_SIZE)] :
        sh \in RomSeeds, sg \in RomSeeds, sf \in RomSeeds, se \in RomSeeds}
    \cup {[h |-> RomFile(17, ROM_FILE_SIZE - 1), g |-> RomFile(102, ROM_FILE_SIZE),
           f |-> RomFile(203, ROM_FILE_SIZE), e |-> RomFile(17, ROM_FILE_SIZE)],
          [h |-> RomFile(17, ROM_FILE_SIZE), g |-> RomFile(102, ROM_FILE_SIZE),
           f |-> RomFile(203, ROM_FILE_SIZE), e |-> RomFile(17, ROM_FILE_SIZE + 1)],
          [h |-> RomFile(17, ROM_FILE_SIZE), g |-> NoFile,
           f |-> RomFile(203, ROM_FILE_SIZE), e |-> RomFile(17, ROM_FILE_SIZE)]}

\* the byte the loop of load_rom stores at address i: all four arms index
\* invaders_h, by i, i - 0x0800, i - 0x1000 and i - 0x1800
rom_index(i) == i % ROM_FILE_SIZE

\* the memory once the loop has stored the addresses below `upto`
rom_stored(cpu, invaders_h, upto) ==
    [x \in ((DOMAIN cpu.memory) \ (0..(upto - 1)))
            \cup {i \in 0..(upto - 1) : invaders_h[rom_index(i)] # 0} |->
        IF x < upto THEN invaders_h[rom_index(x)] ELSE cpu.memory[x]]

\* Bus::load_rom: the four fs::read(..).expect(..), then the loop over
\* 0x0000..0x2000, which panics at the first index invaders_h does not have.
load_rom(cpu, rom) ==
    IF ~(rom.h.found /\ rom.g.found /\ rom.f.found /\ rom.e.found)
    THEN Panic(cpu, "read")
    ELSE LET n == Cardinality(DOMAIN rom.h.bytes) IN
         IF n < ROM_FILE_SIZE
         THEN Panic([cpu EXCEPT !.memory = rom_stored(cpu, rom.h.bytes, n)],
                    "index")
         ELSE Done([cpu EXCEPT !.memory = rom_stored(cpu, rom.h.bytes, ROM_END)])

\* a Bus before load_rom
InitRom == InitWith(0, 0, 0, << >>)

\* bus.load_rom(), as Emulator::new calls it, once
LoadRom ==
    /\ fault = "none"
    /\ calls = << >>
    /\ \E rom \in RomSets : Becomes(load_rom(Cur, rom), "load_rom", rom)

NextRom == LoadRom

SpecRom == InitRom /\ [][NextRom]_vars

\* The packed-BCD bytes: both nibbles at most 9.
BcdBytes == {16 * h + l : h, l \in 0..9}

\* A packed-BCD byte in the accumulator and one in B, before ADD B; DAA.
InitBcd ==
    \E x \in BcdBytes, y \in BcdBytes, f \in {0, 17} :
        /\ layout \in Layouts
        /\ af = Pair(x, f)
        /\ bc = Pair(y, 0)
        /\ de = 0
        /\ hl = 0
        /\ program_counter = 0
        /\ stack_pointer = 0
        /\ memory = Loaded(<<128, 39>>, 0, NewBus)
        /\ fault = "none"
        /\ calls = << >>
        /\ twin = [cpu |-> Cur, fault |-> "none", calls |-> << >>]
        /\ frame = NoFrame

NextBcd == Execute

SpecBcd == InitBcd /\ [][NextBcd]_vars

\* The instructions of the images run from the zeroed state: DCR B, INR M,
\* INR A, ADD B, SBB B, SUB M, ANA B, XRA A, DAA, CMA, STC, RAR, MOV B,A,
\* STAX B, SPHL (no arm in execute()) and 0x76 (not in the table).
ZeroAlphabet ==
    {5, 52, 60, 128, 152, 150, 160, 175, 39, 47, 55, 31, 71, 2, 249, 118}

\* The images: every single byte (the memory after it is 0, NOP), and every
\* sequence of MaxZeroSteps instructions of the ZeroAlphabet.
ZeroImages ==
    {<<b>> : b \in Byte} \cup [1..MaxZeroSteps -> ZeroAlphabet]

\* Cpu::new(bus): registers, flags, PC and SP zeroed, an image at 0.
InitZero ==
    \E image \in ZeroImages :
        /\ layout \in Layouts
        /\ af = NewCpu(NewBus).af
        /\ bc = NewCpu(NewBus).bc
        /\ de = NewCpu(NewBus).de
        /\ hl = NewCpu(NewBus).hl
        /\ program_counter = NewCpu(NewBus).program_counter
        /\ stack_pointer = NewCpu(NewBus).stack_pointer
        /\ memory = Loaded(image, 0, NewBus)
        /\ fault = "none"
        /\ calls = << >>
        /\ twin = [cpu |-> Cur, fault |-> "none", calls |-> << >>]
        /\ frame = NoFrame

\* One call of Cpu::execute on the Cpu that started zeroed.
ExecuteZero ==
    /\ fault = "none"
    /\ Len(calls) < MaxZeroSteps
    /\ Becomes(execute(Cur), "execute", read_memory(Cur, program_counter))

NextZero == ExecuteZero

SpecZero == InitZero /\ [][NextZero]_vars

\* The handlers the tests of cpu.rs call on their own and execute() has no
\* arm for.
TestedCodes == {c \in DOMAIN OPCODE_MAP :
                   OPCODE_MAP[c].operation \in {"ANA", "XRA", "ORA", "CMP"}}

\* One call of a handler with a table entry, as a test of cpu.rs makes it.
CallHandler ==
    /\ fault = "none"
    /\ Len(calls) < MaxCalls
    /\ \E code \in TestedCodes :
           Becomes(handler(Cur, OPCODE_MAP[code]), "handler", code)

InitTest ==
    \E a \in AccBytes, f \in FlagBytes, k \in 0..(Len(RegBytes) - 1) :
        InitWith(a, f, k, << >>)

NextTest == CallHandler

SpecTest == InitTest /\ [][NextTest]_vars

-----------------------------------------------------------------------------
(* What the properties below speak of. *)

\* the processor that call i left
Post(i) == IF i < Len(calls) THEN calls[i + 1].pre ELSE Cur

\* call i was execute() on byte `op` (it may have panicked)
Executed(i, ops) == calls[i].how = "execute" /\ calls[i].op \in ops

\* call i was a handler called on its own with the entry of code `op`
Called(i, ops) == calls[i].how = "handler" /\ calls[i].op \in ops

\* the accumulator and the flag byte: parts.hi and parts.lo of af
A_(cpu) == Hi(cpu.af)
F_(cpu) == Lo(cpu.af)

\* the flags, by their bit of F
Carry(cpu) == (F_(cpu) \div 1) % 2 = 1
Parity(cpu) == (F_(cpu) \div 4) % 2 = 1
AuxCarry(cpu) == (F_(cpu) \div 16) % 2 = 1
Zero(cpu) == (F_(cpu) \div 64) % 2 = 1
Sign(cpu) == (F_(cpu) \div 128) % 2 = 1
CarryBit(cpu) == IF Carry(cpu) THEN 1 ELSE 0

\* the positions of the 1 bits of a byte
Bits(x) == {i \in 0..7 : (x \div (2 ^ i)) % 2 = 1}
EvenOnes(x) == Cardinality(Bits(x)) % 2 = 0

\* Zero, Sign and Parity of `cpu` are those of the byte x
ZSPFrom(cpu, x) ==
    /\ Zero(cpu) <=> x = 0
    /\ Sign(cpu) <=> 7 \in Bits(x)
    /\ Parity(cpu) <=> EvenOnes(x)

\* The operand an encoding r = 0..7 names: B, C, D, E, H, L, the byte at the
\* address the pair HL holds (hl.val), A.
Operand(cpu, r) ==
    CASE r = 0 -> Hi(cpu.bc)
      [] r = 1 -> Lo(cpu.bc)
      [] r = 2 -> Hi(cpu.de)
      [] r = 3 -> Lo(cpu.de)
      [] r = 4 -> Hi(cpu.hl)
      [] r = 5 -> Lo(cpu.hl)
      [] r = 6 -> IF cpu.hl \in DOMAIN cpu.memory THEN cpu.memory[cpu.hl] ELSE 0
      [] r = 7 -> Hi(cpu.af)

ADD_CODES == 128..135     \* 0x80..0x87
ADC_CODES == 136..143     \* 0x88..0x8F
SUB_CODES == 144..151     \* 0x90..0x97
SBB_CODES == 152..159     \* 0x98..0x9F
ANA_CODES == 160..167     \* 0xA0..0xA7
XRA_CODES == 168..175     \* 0xA8..0xAF
ORA_CODES == 176..183     \* 0xB0..0xB7
CMP_CODES == 184..191     \* 0xB8..0xBF
INR_CODES == {4 + 8 * r : r \in 0..7}
DCR_CODES == {5 + 8 * r : r \in 0..7}

-----------------------------------------------------------------------------
\* C1: ADD (0x80..0x87) with accumulator a and operand b (B, C, D, E, H, L,
\* the byte at HL, A) completes and leaves accumulator = (a + b) mod 256,
\* Carry iff a + b > 255, Zero iff the result is 0, Sign iff its bit 7 is 1,
\* Parity iff it has an even number of 1 bits, Auxiliary Carry iff
\* (a mod 16) + (b mod 16) > 15; a = 0xD0, B = 0x01 with 0x80 gives 0xD1,
\* Zero and Carry and Auxiliary Carry clear, Sign and Parity set.
C1_Add ==
    \A i \in DOMAIN calls : Executed(i, ADD_CODES) =>
        LET pre == calls[i].pre
            post == Post(i)
            a == A_(pre)
            b == Operand(pre, calls[i].op % 8)
            r == (a + b) % 256
        IN  /\ calls[i].fault = "none"
            /\ A_(post) = r
            /\ Carry(post) <=> a + b > 255
            /\ ZSPFrom(post, r)
            /\ AuxCarry(post) <=> (a % 16) + (b % 16) > 15
            /\ (calls[i].op = 128 /\ a = 208 /\ b = 1) =>
                   /\ A_(post) = 209
                   /\ ~Zero(post) /\ Sign(post) /\ ~Carry(post)
                   /\ ~AuxCarry(post) /\ Parity(post)

\* ADD B has run with accumulator 0xD0 and B = 0x01, and left 0xD1.
C1_Witness ==
    \E i \in DOMAIN calls :
        /\ Executed(i, {128})
        /\ A_(calls[i].pre) = 208 /\ Operand(calls[i].pre, 0) = 1
        /\ A_(Post(i)) = 209 /\ Sign(Post(i))

\* C2: ADC (0x88..0x8F) adds the incoming Carry flag c to accumulator +
\* operand: accumulator = (a + b + c) mod 256, Carry iff a + b + c > 255,
\* Auxiliary Carry iff (a mod 16) + (b mod 16) + c > 15; ADD (0x80..0x87)
\* does the same with c = 0 whatever the Carry flag was.
C2_AddWithCarry ==
    \A i \in DOMAIN calls : Executed(i, ADD_CODES \cup ADC_CODES) =>
        LET pre == calls[i].pre
            post == Post(i)
            a == A_(pre)
            b == Operand(pre, calls[i].op % 8)
            c == IF calls[i].op \in ADC_CODES THEN CarryBit(pre) ELSE 0
        IN  /\ calls[i].fault = "none"
            /\ A_(post) = (a + b + c) % 256
            /\ Carry(post) <=> a + b + c > 255
            /\ AuxCarry(post) <=> (a % 16) + (b % 16) + c > 15

\* An ADC has run whose carry out and nibble carry both come from the Carry
\* flag alone: a + b = 255 and the Carry flag was set.
C2_Witness ==
    \E i \in DOMAIN calls :
        /\ Executed(i, ADC_CODES) /\ calls[i].fault = "none"
        /\ Carry(calls[i].pre)
        /\ A_(calls[i].pre) + Operand(calls[i].pre, calls[i].op % 8) = 255
        /\ Carry(Post(i)) /\ AuxCarry(Post(i)) /\ A_(Post(i)) = 0

\* C3: SUB (0x90..0x97, c = 0) and SBB (0x98..0x9F, c = the Carry flag) with
\* accumulator a and operand b complete without an overflow or a trap, also
\* for b = 0xFF with c = 1, and leave accumulator = (a - b - c) mod 256,
\* Carry iff a < b + c, Auxiliary Carry iff (a mod 16) < (b mod 16) + c, and
\* Zero, Sign and Parity of the new accumulator.
C3_Sub ==
    \A i \in DOMAIN calls : Executed(i, SUB_CODES \cup SBB_CODES) =>
        LET pre == calls[i].pre
            post == Post(i)
            a == A_(pre)
            b == Operand(pre, calls[i].op % 8)
            c == IF calls[i].op \in SBB_CODES THEN CarryBit(pre) ELSE 0
        IN  /\ calls[i].fault = "none"
            /\ A_(post) = (a - b - c) % 256
            /\ Carry(post) <=> a < b + c
            /\ AuxCarry(post) <=> (a % 16) < (b % 16) + c
            /\ ZSPFrom(post, A_(post))

\* SBB has run with operand 0xFF and the Carry flag set, from accumulator
\* 0xFF: the borrow of b + c = 256 is taken and the result is 0xFF.
C3_Witness ==
    \E i \in DOMAIN calls :
        /\ Executed(i, SBB_CODES) /\ calls[i].fault = "none"
        /\ Carry(calls[i].pre)
        /\ A_(calls[i].pre) = 255
        /\ Operand(calls[i].pre, calls[i].op % 8) = 255
        /\ calls[i].op % 8 # 7
        /\ Carry(Post(i)) /\ A_(Post(i)) = 255

\* call i was SUB r and call i + 1 was ADD r, with r among rs, both completed
SubThenAdd(i, rs) ==
    /\ i + 1 \in DOMAIN calls
    /\ \E r \in rs : Executed(i, {144 + r}) /\ Executed(i + 1, {128 + r})
    /\ calls[i].fault = "none" /\ calls[i + 1].fault = "none"

\* C4, as claimed: for every operand encoding (B, C, D, E, H, L, the byte at
\* HL, A), SUB of an operand and then ADD of the same operand restores the
\* accumulator.
C4_RoundTripAnyOperand ==
    \A i \in DOMAIN calls : SubThenAdd(i, 0..7) =>
        A_(Post(i + 1)) = A_(calls[i].pre)

\* C4, amended: SUB r and then ADD r restores the accumulator for r among B,
\* C, D, E, H, L and the byte at HL; SUB A and then ADD A leaves 0.
C4_RoundTrip ==
    \A i \in DOMAIN calls :
        /\ SubThenAdd(i, 0..6) => A_(Post(i + 1)) = A_(calls[i].pre)
        /\ SubThenAdd(i, {7}) => A_(Post(i + 1)) = 0

\* SUB r, ADD r has run with a borrow: the accumulator wrapped below 0 and
\* came back.
C4_Witness ==
    \E i \in DOMAIN calls :
        /\ SubThenAdd(i, 0..6)
        /\ Carry(Post(i))
        /\ A_(Post(i)) # A_(calls[i].pre)
        /\ A_(Post(i + 1)) = A_(calls[i].pre)

\* C5: CMP (the compare handler, 0xB8..0xBF) changes nothing but the flag
\* register: the accumulator, B, C, D, E, H, L, the stack pointer and every
\* memory byte are as before, for every operand and prior flags.
C5_CompareFrame ==
    \A i \in DOMAIN calls : Called(i, CMP_CODES) =>
        LET pre == calls[i].pre
            post == Post(i)
        IN  /\ calls[i].fault = "none"
            /\ A_(post) = A_(pre)
            /\ post.bc = pre.bc /\ post.de = pre.de /\ post.hl = pre.hl
            /\ post.stack_pointer = pre.stack_pointer
            /\ post.memory = pre.memory

\* CMP has run with an operand that differs from the accumulator, and changed
\* the flag register.
C5_Witness ==
    \E i \in DOMAIN calls :
        /\ Called(i, CMP_CODES) /\ calls[i].fault = "none"
        /\ Operand(calls[i].pre, calls[i].op % 8) # A_(calls[i].pre)
        /\ F_(Post(i)) # F_(calls[i].pre)
        /\ A_(Post(i)) = A_(calls[i].pre)

\* C6: the flags CMP leaves for accumulator a and operand b are the flags SUB
\* without borrow leaves for the same a and b: Zero iff a = b, Carry iff
\* a < b, Sign and Parity of (a - b) mod 256, Auxiliary Carry iff
\* (a mod 16) < (b mod 16).
C6_CompareAsSub ==
    \A i \in DOMAIN calls : Called(i, CMP_CODES) =>
        LET pre == calls[i].pre
            post == Post(i)
            a == A_(pre)
            b == Operand(pre, calls[i].op % 8)
            d == (a - b) % 256
            sub == do_sub(pre, OPCODE_MAP[calls[i].op - 40], FALSE)
        IN  /\ calls[i].fault = "none" /\ sub.fault = "none"
            /\ F_(post) = F_(sub.cpu)
            /\ Zero(post) <=> a = b
            /\ Carry(post) <=> a < b
            /\ Sign(post) <=> 7 \in Bits(d)
            /\ Parity(post) <=> EvenOnes(d)
            /\ AuxCarry(post) <=> (a % 16) < (b % 16)

\* CMP has run with a < b and a nibble borrow, and with flags that differed
\* before the call from those it left.
C6_Witness ==
    \E i \in DOMAIN calls :
        /\ Called(i, CMP_CODES) /\ calls[i].fault = "none"
        /\ A_(calls[i].pre) < Operand(calls[i].pre, calls[i].op % 8)
        /\ Carry(Post(i)) /\ AuxCarry(Post(i))
        /\ ~Carry(calls[i].pre) /\ ~AuxCarry(calls[i].pre)

\* the operation tags the design models
ModeledTags ==
    {"ADD", "ADC", "SUB", "SBB", "ANA", "XRA", "ORA", "CMP", "INR", "DCR",
     "CMA", "CMC", "STC", "DAA", "RLC", "RAL", "RRC", "RAR", "MOV", "LDAX",
     "STAX", "NOP"}

\* C7: execute() on a byte of the table whose tag is a modeled one ends in no
\* fatal error, returns the entry's cycle count and leaves what the handler
\* of that tag leaves.
C7_ModeledOpcodesDispatch ==
    \A i \in DOMAIN calls :
        (/\ calls[i].how = "execute"
         /\ calls[i].op \in DOMAIN OPCODE_MAP
         /\ OPCODE_MAP[calls[i].op].operation \in ModeledTags) =>
            LET pre == calls[i].pre
                entry == OPCODE_MAP[calls[i].op]
                fetched == [pre EXCEPT !.program_counter = (@ + 1) % 65536]
            IN  /\ calls[i].fault = "none"
                /\ calls[i].cycles = entry.cycles
                /\ Post(i) = handler(fetched, entry).cpu

\* C8: ANA, XRA and ORA leave accumulator = accumulator AND / XOR / OR
\* operand, Carry = 0 and Auxiliary Carry = 0 whatever they were, and Zero,
\* Sign and Parity of the result.
C8_Logic ==
    \A i \in DOMAIN calls :
        Called(i, ANA_CODES \cup XRA_CODES \cup ORA_CODES) =>
            LET pre == calls[i].pre
                post == Post(i)
                a == Bits(A_(pre))
                b == Bits(Operand(pre, calls[i].op % 8))
                r == Bits(A_(post))
            IN  /\ calls[i].fault = "none"
                /\ calls[i].op \in ANA_CODES => r = a \cap b
                /\ calls[i].op \in XRA_CODES => r = (a \cup b) \ (a \cap b)
                /\ calls[i].op \in ORA_CODES => r = a \cup b
                /\ ~Carry(post) /\ ~AuxCarry(post)
                /\ ZSPFrom(post, A_(post))

\* ANA, XRA or ORA has run with Carry and Auxiliary Carry both set before
\* the call, on two bytes that share some 1 bits and differ in others.
C8_Witness ==
    \E i \in DOMAIN calls :
        /\ Called(i, ANA_CODES \cup XRA_CODES \cup ORA_CODES)
        /\ calls[i].fault = "none"
        /\ Carry(calls[i].pre) /\ AuxCarry(calls[i].pre)
        /\ ~Carry(Post(i)) /\ ~AuxCarry(Post(i))
        /\ LET a == Bits(A_(calls[i].pre))
               b == Bits(Operand(calls[i].pre, calls[i].op % 8))
           IN  a \cap b # {} /\ a \ b # {} /\ b \ a # {}

\* call i was DCR r and call i + 1 was INR r, with r among rs, both completed
DcrThenInr(i, rs) ==
    /\ i + 1 \in DOMAIN calls
    /\ \E r \in rs : Executed(i, {5 + 8 * r}) /\ Executed(i + 1, {4 + 8 * r})
    /\ calls[i].fault = "none" /\ calls[i + 1].fault = "none"

\* C9: for each operand r (B, C, D, E, H, L, the byte at HL, A), DCR r and
\* then INR r restores the operand's value.
C9_DcrInrRoundTrip ==
    \A i \in DOMAIN calls : \A r \in 0..7 : DcrThenInr(i, {r}) =>
        Operand(Post(i + 1), r) = Operand(calls[i].pre, r)

\* C10: INR and DCR leave the Carry flag as it was, for every operand
\* encoding and value and either value of Carry.
C10_IncDecKeepCarry ==
    \A i \in DOMAIN calls :
        (Executed(i, INR_CODES \cup DCR_CODES) /\ calls[i].fault = "none") =>
            (Carry(Post(i)) <=> Carry(calls[i].pre))

\* INR has wrapped its operand from 0xFF to 0x00 with the Carry flag clear
\* before and after.
C10_Witness ==
    \E i \in DOMAIN calls :
        /\ Executed(i, INR_CODES) /\ calls[i].fault = "none"
        /\ calls[i].op # 60
        /\ Operand(calls[i].pre, (calls[i].op - 4) \div 8) = 255
        /\ Operand(Post(i), (calls[i].op - 4) \div 8) = 0
        /\ Zero(Post(i))
        /\ ~Carry(calls[i].pre) /\ ~Carry(Post(i))

-----------------------------------------------------------------------------
(* More of what the properties speak of. *)

\* the byte of memory at address x
Mem(cpu, x) == IF x \in DOMAIN cpu.memory THEN cpu.memory[x] ELSE 0

\* memory is the same in `pre` and `post` at every address outside xs
SameMemoryExcept(pre, post, xs) ==
    \A x \in (DOMAIN pre.memory \cup DOMAIN post.memory) \ xs :
        Mem(post, x) = Mem(pre, x)

\* the registers B, C, D, E, H, L and A (encodings 0..5 and 7) other than
\* those of rs, and the stack pointer, are the same in `pre` and `post`
SameRegistersExcept(pre, post, rs) ==
    /\ \A q \in ({0, 1, 2, 3, 4, 5, 7} \ rs) : Operand(post, q) = Operand(pre, q)
    /\ post.stack_pointer = pre.stack_pointer

\* Only the operand r (a register, or for r = 6 the byte at the address HL
\* held before) differs between `pre` and `post`, flags aside.
OnlyOperandChanged(pre, post, r) ==
    /\ SameRegistersExcept(pre, post, {r})
    /\ SameMemoryExcept(pre, post, IF r = 6 THEN {pre.hl} ELSE {})

\* call i is INR (delta = 1) or DCR (delta = -1) of operand r, and it does
\* what C11 says
IncDecAsStated(i, r, delta) ==
    LET pre == calls[i].pre
        post == Post(i)
        x == (Operand(pre, r) + delta) % 256
    IN  /\ calls[i].fault = "none"
        /\ (IF r = 6 THEN Mem(post, pre.hl) ELSE Operand(post, r)) = x
        /\ OnlyOperandChanged(pre, post, r)
        /\ ZSPFrom(post, x)
        /\ AuxCarry(post) <=> (x % 16 = (IF delta = 1 THEN 0 ELSE 15))

\* C11: INR (resp. DCR) of operand X, for each of B, C, D, E, H, L, the byte
\* at HL and A, leaves X = (old X + 1) mod 256 (resp. (old X - 1) mod 256),
\* changes no other register and no other memory byte, leaves Zero, Sign and
\* Parity those of the new X, and Auxiliary Carry set iff the low nibble of
\* the new X is 0 (INR) or 0xF (DCR).
C11_IncDec ==
    \A i \in DOMAIN calls : \A r \in 0..7 :
        /\ Executed(i, {4 + 8 * r}) => IncDecAsStated(i, r, 1)
        /\ Executed(i, {5 + 8 * r}) => IncDecAsStated(i, r, -1)

-----------------------------------------------------------------------------
\* C12: DAA (0x27), for every accumulator value a and every Carry and
\* Auxiliary Carry: step 1 is taken iff Auxiliary Carry is set or the low
\* nibble of a is above 9, adds 6 to the accumulator (mod 256) and sets
\* Auxiliary Carry iff low nibble + 6 > 15; step 2 is taken iff Carry is set
\* or the high nibble after step 1 is above 9, adds 6 to the high nibble and
\* sets Carry iff that sum is above 15; a step not taken leaves its flag;
\* Zero, Sign and Parity are those of the final value.  The accumulator 0x9B
\* with all flags clear becomes 0x01 with Carry and Auxiliary Carry set and
\* Zero, Sign and Parity clear.
C12_DecimalAdjust ==
    \A i \in DOMAIN calls : Executed(i, {39}) =>
        LET pre == calls[i].pre
            post == Post(i)
            a == A_(pre)
            step1 == AuxCarry(pre) \/ (a % 16) > 9
            a1 == IF step1 THEN (a + 6) % 256 ELSE a
            step2 == Carry(pre) \/ (a1 \div 16) > 9
            a2 == IF step2 THEN (((a1 \div 16) + 6) % 16) * 16 + (a1 % 16) ELSE a1
        IN  /\ calls[i].fault = "none"
            /\ A_(post) = a2
            /\ AuxCarry(post) <=> IF step1 THEN (a % 16) + 6 > 15 ELSE AuxCarry(pre)
            /\ Carry(post) <=> IF step2 THEN (a1 \div 16) + 6 > 15 ELSE Carry(pre)
            /\ ZSPFrom(post, a2)
            /\ (a = 155 /\ F_(pre) = 0) => (A_(post) = 1 /\ F_(post) = 17)

\* DAA ran on 0x9B with all flags clear: both steps were taken.
C12_Witness ==
    /\ Len(calls) >= 1
    /\ Executed(1, {39})
    /\ calls[1].fault = "none"
    /\ A_(calls[1].pre) = 155
    /\ F_(calls[1].pre) = 0
    /\ A_(Post(1)) = 1
    /\ F_(Post(1)) = 17

\* the run began with eight RLC (0x07) on the accumulator v
EightRlc(v) ==
    /\ Len(calls) >= 8
    /\ \A i \in 1..8 : Executed(i, {7}) /\ calls[i].fault = "none"
    /\ A_(calls[1].pre) = v

\* C13 (as stated): for every accumulator byte v and either prior Carry, RLC
\* eight times in a row returns the accumulator to v and leaves Carry equal
\* to bit 7 of v.
C13_EightRlcCarryBit7 ==
    \A v \in Byte : EightRlc(v) =>
        /\ A_(Post(8)) = v
        /\ Carry(Post(8)) <=> 7 \in Bits(v)

\* C13 (amended): for every accumulator byte v and either prior Carry, RLC
\* eight times in a row returns the accumulator to v and leaves Carry equal
\* to bit 0 of v, the bit the eighth rotation moves out of bit 7.
C13_EightRlc ==
    \A v \in Byte : EightRlc(v) =>
        /\ A_(Post(8)) = v
        /\ Carry(Post(8)) <=> 0 \in Bits(v)

\* Eight RLC ran on a byte whose bits 0 and 7 differ, from either Carry.
C13_Witness ==
    /\ EightRlc(1)
    /\ Carry(calls[1].pre)
    /\ A_(Post(8)) = 1
    /\ Carry(Post(8))

RLC_CODE == 7      \* 0x07
RRC_CODE == 15     \* 0x0F
RAL_CODE == 23     \* 0x17
RAR_CODE == 31     \* 0x1F

\* C14: for every accumulator value a and Carry c, RLC and RAL leave
\* (2a mod 256) + (bit 7 of a, resp. c) and Carry = bit 7 of a; RRC and RAR
\* leave (a div 2) + 128 * (bit 0 of a, resp. c) and Carry = bit 0 of a;
\* Zero, Sign, Parity and Auxiliary Carry, every other register and memory
\* are unchanged.
C14_Rotates ==
    \A i \in DOMAIN calls :
        Executed(i, {RLC_CODE, RRC_CODE, RAL_CODE, RAR_CODE}) =>
        LET pre == calls[i].pre
            post == Post(i)
            a == A_(pre)
            c == CarryBit(pre)
            bit7 == a \div 128
            bit0 == a % 2
            op == calls[i].op
        IN  /\ calls[i].fault = "none"
            /\ op = RLC_CODE => A_(post) = ((2 * a) % 256) + bit7 /\ CarryBit(post) = bit7
            /\ op = RAL_CODE => A_(post) = ((2 * a) % 256) + c /\ CarryBit(post) = bit7
            /\ op = RRC_CODE => A_(post) = (a \div 2) + 128 * bit0 /\ CarryBit(post) = bit0
            /\ op = RAR_CODE => A_(post) = (a \div 2) + 128 * c /\ CarryBit(post) = bit0
            /\ F_(post) \div 2 = F_(pre) \div 2
            /\ SameRegistersExcept(pre, post, {7})
            /\ SameMemoryExcept(pre, post, {})

\* RAR ran with Carry set on an even accumulator with Zero and Parity set in
\* F: bit 7 comes from Carry, Carry is cleared, Zero and Parity stay.
C14_Witness ==
    /\ Len(calls) >= 1
    /\ Executed(1, {RAR_CODE})
    /\ A_(calls[1].pre) = 2
    /\ F_(calls[1].pre) = 149
    /\ A_(Post(1)) = 129
    /\ F_(Post(1)) = 148

-----------------------------------------------------------------------------
\* C15: for every word w and every stack pointer s (0 and 1, where the
\* pointer wraps, included), push_word_to_stack(w) followed immediately by
\* pop_word_from_stack returns w and leaves the stack pointer at s.
C15_PushPop ==
    \A i \in DOMAIN calls :
        (/\ i < Len(calls)
         /\ calls[i].how = "push_word_to_stack"
         /\ calls[i + 1].how = "pop_word_from_stack")
        => /\ calls[i].fault = "none"
           /\ calls[i + 1].fault = "none"
           /\ <<calls[i + 1].cycles>> = calls[i].op
           /\ Post(i + 1).stack_pointer = calls[i].pre.stack_pointer

\* With the stack pointer at 1, 0x1234 was pushed (the pointer wrapped to
\* 0xFFFF) and popped: 0x1234 came back and the pointer is 1 again.
C15_Witness ==
    /\ Len(calls) = 3
    /\ calls[2].how = "push_word_to_stack"
    /\ calls[2].op = <<4660>>
    /\ calls[2].pre.stack_pointer = 1
    /\ calls[3].how = "pop_word_from_stack"
    /\ calls[3].pre.stack_pointer = 65535
    /\ calls[3].cycles = 4660
    /\ stack_pointer = 1

-----------------------------------------------------------------------------
\* C18: for every address x and byte d, write_byte(x, d) followed by
\* read_byte(x) returns d; write_byte changes no byte at another address,
\* read_byte changes nothing, and every address 0..65535 is accepted: no
\* read or write fails.
C18_Bus ==
    \A i \in DOMAIN calls :
        LET pre == calls[i].pre
            post == Post(i)
        IN  /\ calls[i].how = "write_byte" =>
                LET x == calls[i].op[1]
                    d == calls[i].op[2]
                IN  /\ calls[i].fault = "none"
                    /\ Mem(post, x) = d
                    /\ SameMemoryExcept(pre, post, {x})
                    /\ [post EXCEPT !.memory = pre.memory] = pre
                    /\ (i < Len(calls) /\ calls[i + 1].how = "read_byte"
                                       /\ calls[i + 1].op = <<x>>)
                       => calls[i + 1].cycles = d
            /\ calls[i].how = "read_byte" =>
                /\ calls[i].fault = "none"
                /\ calls[i].cycles = Mem(pre, calls[i].op[1])
                /\ post = pre

\* 0xD0 was written at the last address, 0xFFFF, and read back.
C18_Witness ==
    /\ Len(calls) = 2
    /\ calls[1].how = "write_byte"
    /\ calls[1].op = <<65535, 208>>
    /\ calls[2].how = "read_byte"
    /\ calls[2].op = <<65535>>
    /\ calls[2].cycles = 208
    /\ fault = "none"

-----------------------------------------------------------------------------
\* C16: when the byte at PC has no entry in the opcode table, execute() ends
\* in the unrecognized-opcode panic and nothing goes on: no register, flag,
\* PC, SP or memory byte differs from before the call, and no call follows.
C16_Unrecognized ==
    \A i \in DOMAIN calls :
        (calls[i].how = "execute" /\ calls[i].op \notin DOMAIN OPCODE_MAP)
        => /\ calls[i].fault = "unrecognized"
           /\ Post(i) = calls[i].pre
           /\ i = Len(calls)
           /\ fault = "unrecognized"

\* After a NOP, execute() met 0x76, which the table does not hold, at PC = 1.
C16_Witness ==
    /\ Len(calls) = 2
    /\ Executed(1, {0})
    /\ Executed(2, {118})
    /\ 118 \notin DOMAIN OPCODE_MAP
    /\ fault = "unrecognized"
    /\ program_counter = 1
    /\ Cur = calls[2].pre

-----------------------------------------------------------------------------
\* the address the halves hi_r and lo_r (encodings of Operand) form
AddressOf(cpu, hi_r, lo_r) == Operand(cpu, hi_r) * 256 + Operand(cpu, lo_r)

\* each pair, read whole, is its first-named half * 256 + its second
PairsAreViews(cpu) ==
    /\ cpu.bc = AddressOf(cpu, 0, 1)
    /\ cpu.de = AddressOf(cpu, 2, 3)
    /\ cpu.hl = AddressOf(cpu, 4, 5)
    /\ cpu.af = A_(cpu) * 256 + F_(cpu)

\* call i addressed memory through a pair at the address its halves form:
\* MOV r,M reads and MOV M,r, INR M, DCR M write the byte at H * 256 + L,
\* LDAX reads and STAX writes the byte at B * 256 + C or D * 256 + E
AddressedByHalves(i) ==
    LET pre == calls[i].pre
        post == Post(i)
        op == calls[i].op
        m == AddressOf(pre, 4, 5)
    IN  /\ \A r \in {0, 1, 2, 3, 4, 5, 7} :
              /\ op = 70 + 8 * r => Operand(post, r) = Mem(pre, m)
              /\ op = 112 + r => Mem(post, m) = Operand(pre, r)
        /\ op = 52 => Mem(post, m) = (Mem(pre, m) + 1) % 256
        /\ op = 53 => Mem(post, m) = (Mem(pre, m) - 1) % 256
        /\ op = 10 => A_(post) = Mem(pre, AddressOf(pre, 0, 1))
        /\ op = 26 => A_(post) = Mem(pre, AddressOf(pre, 2, 3))
        /\ op = 2 => Mem(post, AddressOf(pre, 0, 1)) = A_(pre)
        /\ op = 18 => Mem(post, AddressOf(pre, 2, 3)) = A_(pre)

\* C17: in every reachable state BC = B * 256 + C, DE = D * 256 + E,
\* HL = H * 256 + L and AF = A * 256 + F; a write to a half is seen by
\* reading the pair and a write to the pair by reading a half, so that the
\* operand M of an instruction is the byte at H * 256 + L and LDAX / STAX
\* address the byte at B * 256 + C or D * 256 + E.
C17_PairsAreViews ==
    /\ PairsAreViews(Cur)
    /\ \A i \in DOMAIN calls :
           (calls[i].how = "execute" /\ calls[i].fault = "none")
           => AddressedByHalves(i)

-----------------------------------------------------------------------------
-----------------------------------------------------------------------------
\* the MOV opcodes of the table: 0x40..0x7F except 0x76
MOV_CODES == (64..127) \ {118}

\* C20: for every MOV opcode (0x40..0x7F except 0x76) the destination named
\* by bits 5..3 (B, C, D, E, H, L, the byte at HL, A) receives the value the
\* source named by bits 2..0 had before the instruction; the flag byte, every
\* other register and every other memory byte are unchanged; the encodings
\* with the same source and destination (0x40, 0x49, 0x52, 0x5B, 0x64, 0x6D,
\* 0x7F) change nothing but PC.
C20_Move ==
    \A i \in DOMAIN calls : Executed(i, MOV_CODES) =>
        LET pre == calls[i].pre
            post == Post(i)
            dst == (calls[i].op - 64) \div 8
            src == calls[i].op % 8
        IN  /\ calls[i].fault = "none"
            /\ (IF dst = 6 THEN Mem(post, pre.hl) ELSE Operand(post, dst))
                   = Operand(pre, src)
            /\ F_(post) = F_(pre)
            /\ OnlyOperandChanged(pre, post, dst)
            /\ src = dst =>
                   [post EXCEPT !.program_counter = pre.program_counter] = pre
            /\ post.program_counter = (pre.program_counter + 1) % 65536

\* MOV M,A (0x77) stored an accumulator that differs from the byte at HL,
\* with Sign, Auxiliary Carry, Parity and Carry set in F.
C20_Witness ==
    /\ Len(calls) >= 1
    /\ Executed(1, {119})
    /\ calls[1].fault = "none"
    /\ Mem(calls[1].pre, calls[1].pre.hl) # A_(calls[1].pre)
    /\ Mem(Post(1), calls[1].pre.hl) = A_(calls[1].pre)
    /\ F_(calls[1].pre) = 149
    /\ F_(Post(1)) = 149

-----------------------------------------------------------------------------
LDAX_CODES == {10, 26}    \* 0x0A LDAX B, 0x1A LDAX D
STAX_CODES == {2, 18}     \* 0x02 STAX B, 0x12 STAX D

\* the address LDAX / STAX take from their pair: BC for 0x0A and 0x02, DE
\* for 0x1A and 0x12
PairAddress(cpu, code) == IF code \in {10, 2} THEN cpu.bc ELSE cpu.de

\* C21: LDAX B / LDAX D set the accumulator to the memory byte at address
\* BC / DE and change nothing else except PC; STAX B / STAX D write the
\* accumulator to the memory byte at address BC / DE and change no register
\* and no other memory byte; neither changes the flag register.
C21_LoadStore ==
    \A i \in DOMAIN calls :
        LET pre == calls[i].pre
            post == Post(i)
            x == PairAddress(pre, calls[i].op)
        IN  /\ Executed(i, LDAX_CODES) =>
                /\ calls[i].fault = "none"
                /\ A_(post) = Mem(pre, x)
                /\ F_(post) = F_(pre)
                /\ SameRegistersExcept(pre, post, {7})
                /\ post.memory = pre.memory
            /\ Executed(i, STAX_CODES) =>
                /\ calls[i].fault = "none"
                /\ Mem(post, x) = A_(pre)
                /\ SameMemoryExcept(pre, post, {x})
                /\ F_(post) = F_(pre)
                /\ SameRegistersExcept(pre, post, {})

\* DCR D ran, then STAX D with A = 0x2F: the byte at the address DE, which
\* was 0, is 0x2F, and the flags are those DCR D left.
C21_Witness ==
    /\ Len(calls) = 2
    /\ calls[2].op = 18
    /\ calls[2].fault = "none"
    /\ A_(calls[2].pre) = 47
    /\ Mem(calls[2].pre, de) = 0
    /\ Mem(Cur, de) = 47
    /\ F_(Cur) = F_(calls[2].pre)
    /\ F_(Cur) # F_(calls[1].pre)

-----------------------------------------------------------------------------
NOP_CODE == 0      \* 0x00

\* C22: executing NOP (opcode 0x00) returns its cycle count of 4 and changes
\* no register, no flag, no memory byte and not the stack pointer; the only
\* change is PC advancing by 1.
C22_Nop ==
    \A i \in DOMAIN calls :
        Executed(i, {NOP_CODE}) =>
            /\ calls[i].fault = "none"
            /\ calls[i].cycles = 4
            /\ Post(i) = [calls[i].pre EXCEPT
                             !.program_counter = (@ + 1) % 65536]

\* NOP ran first, with A = 0x9B, F = 0x95 and a byte at the address HL: it
\* returned 4, PC is 1 and everything else is as it was.
C22_Witness ==
    /\ Len(calls) = 1
    /\ calls[1].op = NOP_CODE
    /\ calls[1].cycles = 4
    /\ A_(Cur) = 155
    /\ F_(Cur) = 149
    /\ Mem(Cur, hl) # 0
    /\ program_counter = 1
    /\ Cur = [calls[1].pre EXCEPT !.program_counter = 1]

-----------------------------------------------------------------------------
CMA_CODE == 47     \* 0x2F
STC_CODE == 55     \* 0x37
CMC_CODE == 63     \* 0x3F

\* call i left every register but A, the stack pointer and the memory as
\* they were
OnlyAccumulatorAndFlags(i) ==
    /\ calls[i].fault = "none"
    /\ SameRegistersExcept(calls[i].pre, Post(i), {7})
    /\ Post(i).memory = calls[i].pre.memory

\* calls i and i + 1 together changed nothing but PC
RestoredBy(i) ==
    Post(i + 1) = [calls[i].pre EXCEPT
                      !.program_counter = Post(i + 1).program_counter]

\* C23: CMA replaces the accumulator by its bitwise complement and leaves
\* the whole flag register unchanged; CMC inverts the Carry flag and STC
\* sets it to 1, and both leave the accumulator, every other flag bit, every
\* other register and memory unchanged; so CMA applied twice and CMC applied
\* twice each restore the prior state, apart from PC.
C23_Complement ==
    \A i \in DOMAIN calls :
        LET pre == calls[i].pre
            post == Post(i)
        IN  /\ Executed(i, {CMA_CODE}) =>
                /\ OnlyAccumulatorAndFlags(i)
                /\ A_(post) = 255 - A_(pre)
                /\ F_(post) = F_(pre)
            /\ Executed(i, {CMC_CODE}) =>
                /\ OnlyAccumulatorAndFlags(i)
                /\ A_(post) = A_(pre)
                /\ Carry(post) <=> ~Carry(pre)
                /\ F_(post) \div 2 = F_(pre) \div 2
            /\ Executed(i, {STC_CODE}) =>
                /\ OnlyAccumulatorAndFlags(i)
                /\ A_(post) = A_(pre)
                /\ Carry(post)
                /\ F_(post) \div 2 = F_(pre) \div 2
            /\ \A c \in {CMA_CODE, CMC_CODE} :
                   (i < Len(calls) /\ Executed(i, {c}) /\ Executed(i + 1, {c}))
                   => RestoredBy(i)

\* CMA ran twice from A = 0x9B, F = 0x11: A was 0x64 in between and is 0x9B
\* again, and F is 0x11 still.
C23_Witness ==
    /\ Len(calls) = 2
    /\ calls[1].op = CMA_CODE
    /\ calls[2].op = CMA_CODE
    /\ A_(calls[1].pre) = 155
    /\ A_(calls[2].pre) = 100
    /\ A_(Cur) = 155
    /\ F_(Cur) = 17
    /\ RestoredBy(1)

-----------------------------------------------------------------------------
\* C24: after every execute() call that completes without a fatal error, PC
\* is (PC before the call + the length of the executed opcode's table
\* entry) mod 65536, wrapping from 0xFFFF to 0x0000, and the value returned
\* is that entry's cycle count.
C24_Advance ==
    \A i \in DOMAIN calls :
        (calls[i].how = "execute" /\ calls[i].fault = "none") =>
            /\ calls[i].op \in DOMAIN OPCODE_MAP
            /\ Post(i).program_counter =
                   (calls[i].pre.program_counter + OPCODE_MAP[calls[i].op].len)
                       % 65536
            /\ calls[i].cycles = OPCODE_MAP[calls[i].op].cycles

\* DCR D (5 cycles) ran at 0xFFFE and STAX D (7 cycles) at 0xFFFF: PC is 0.
C24_Witness ==
    /\ Len(calls) = 2
    /\ calls[1].pre.program_counter = 65534
    /\ calls[1].op = 21
    /\ calls[1].cycles = 5
    /\ calls[2].pre.program_counter = 65535
    /\ calls[2].op = 18
    /\ calls[2].cycles = 7
    /\ fault = "none"
    /\ program_counter = 0

-----------------------------------------------------------------------------
\* ADI, ACI, SUI, SBI, ANI, XRI, ORI, CPI: 0xC6, 0xCE, 0xD6, 0xDE, 0xE6,
\* 0xEE, 0xF6, 0xFE
IMMEDIATE_CODES == {198, 206, 214, 222, 230, 238, 246, 254}

\* the accumulator an immediate instruction leaves, from the accumulator a,
\* the operand d and the carry c before it
ImmediateResult(code, a, d, c) ==
    CASE code = 198 -> (a + d) % 256
      [] code = 206 -> (a + d + c) % 256
      [] code = 214 -> (a - d) % 256
      [] code = 222 -> (a - d - c) % 256
      [] code = 230 -> BitAnd(a, d)
      [] code = 238 -> BitXor(a, d)
      [] code = 246 -> BitOr(a, d)
      [] code = 254 -> a

\* C25: an arithmetic or logic instruction with an immediate operand (0xC6,
\* 0xCE, 0xD6, 0xDE, 0xE6, 0xEE, 0xF6, 0xFE) executed through execute() uses
\* the byte that follows the opcode in memory as its operand and leaves PC
\* two past the opcode's address.
C25_Immediate ==
    \A i \in DOMAIN calls :
        Executed(i, IMMEDIATE_CODES) =>
            LET pre == calls[i].pre
                post == Post(i)
                d == Mem(pre, (pre.program_counter + 1) % 65536)
            IN  /\ calls[i].fault = "none"
                /\ post.program_counter = (pre.program_counter + 2) % 65536
                /\ A_(post) = ImmediateResult(calls[i].op, A_(pre), d, CarryBit(pre))
                /\ calls[i].op = 254 => (Zero(post) <=> A_(pre) = d)

-----------------------------------------------------------------------------
\* no two entries of CPU_OP_CODES share a code byte
NoDuplicateCodes ==
    \A i, j \in DOMAIN CPU_OP_CODES :
        CPU_OP_CODES[i].code = CPU_OP_CODES[j].code => i = j

\* OPCODE_MAP has one entry per listed code, and the entry under c has code c
OneEntryPerCode ==
    /\ DOMAIN OPCODE_MAP = {CPU_OP_CODES[i].code : i \in DOMAIN CPU_OP_CODES}
    /\ Cardinality(DOMAIN OPCODE_MAP) = Len(CPU_OP_CODES)
    /\ \A c \in DOMAIN OPCODE_MAP : OPCODE_MAP[c].code = c

\* every entry has a length in 1..3 and a cycle count above 0
EntriesWellFormed ==
    \A i \in DOMAIN CPU_OP_CODES :
        /\ CPU_OP_CODES[i].len \in 1..3
        /\ CPU_OP_CODES[i].cycles > 0

\* C26: the opcode table has no duplicate keys, so OPCODE_MAP has exactly
\* one entry per listed code and the entry found for byte c has code c;
\* every entry has length in 1..3 and a cycle count greater than 0.
C26_Table ==
    /\ NoDuplicateCodes
    /\ OneEntryPerCode
    /\ EntriesWellFormed
    /\ \A i \in DOMAIN calls :
           (calls[i].how = "execute" /\ calls[i].fault # "unrecognized") =>
               /\ calls[i].op \in DOMAIN OPCODE_MAP
               /\ OPCODE_MAP[calls[i].op].code = calls[i].op

\* execute() looked 0x7E up at 0xFFFF and found the entry MOV A,M, of code
\* 0x7E, length 1 and 7 cycles, and returned the 7.
C26_Witness ==
    /\ Len(calls) = 1
    /\ calls[1].pre.program_counter = 65535
    /\ calls[1].op = 126
    /\ OPCODE_MAP[126] = OpCode(126, "MOV A,M", "MOV", 1, 7)
    /\ calls[1].cycles = 7

-----------------------------------------------------------------------------
\* the panics that are decode errors: of the lookup in execute(), of the last
\* arm of its match, and of the last arm of a handler's match
DecodeErrors == {"unrecognized", "unexpected", "unhandled"}

\* C27: every fatal decode error raised by execute() or by a handler reports
\* both the offending opcode byte and the program-counter value at which
\* that opcode was fetched.
C27_ErrorsReportByteAndPc ==
    \A i \in DOMAIN calls :
        (calls[i].how = "execute" /\ calls[i].fault \in DecodeErrors) =>
            /\ DOMAIN calls[i].report = {"byte", "pc"}
            /\ calls[i].report["byte"] = calls[i].op
            /\ calls[i].report["pc"] = calls[i].pre.program_counter

-----------------------------------------------------------------------------
\* the largest cycle count of an entry of the table
LargestCycles ==
    CHOOSE n \in {CPU_OP_CODES[i].cycles : i \in DOMAIN CPU_OP_CODES} :
        \A i \in DOMAIN CPU_OP_CODES : CPU_OP_CODES[i].cycles <= n

\* the cycles the first n calls returned
RECURSIVE CyclesOf(_)
CyclesOf(n) == IF n = 0 THEN 0 ELSE CyclesOf(n - 1) + calls[n].cycles

\* run has returned, or a panic has ended the process
FrameOver == frame.at = "return" \/ fault # "none"

\* what holds of a frame at every moment
FrameSafe ==
    /\ \A c \in DOMAIN OPCODE_MAP : OPCODE_MAP[c].cycles >= 4
    /\ \A i \in DOMAIN calls : calls[i].fault = "none" => calls[i].cycles >= 4
    /\ frame.frame_cycles = CyclesOf(Len(calls))
    /\ (frame.at = "return" /\ ~frame.paused) =>
           /\ frame.frame_cycles >= frame.MAX_CYCLES_PER_FRAME
           /\ frame.frame_cycles - frame.MAX_CYCLES_PER_FRAME < LargestCycles
           /\ calls # << >>
           /\ frame.frame_cycles - calls[Len(calls)].cycles
                  < frame.MAX_CYCLES_PER_FRAME
    /\ frame.paused => (calls = << >> /\ Cur = twin.cpu /\ fault = "none")

\* C28: one frame of the driver loop (Emulator::run with paused = false)
\* ends for every memory image: each completed execute() returns at least 4
\* cycles, so the accumulated count reaches the per-frame budget after
\* finitely many instructions unless a fatal decode error stops execution
\* first; at normal exit the count is at least the budget and exceeds it by
\* less than the largest cycle count of a single instruction; and when
\* paused is true no instruction is executed.
C28_Frame == []FrameSafe /\ <>FrameOver

\* With a budget of 33, eight NOPs brought the count to 32 and MOV A,M to
\* 39: run has returned, 6 cycles over the budget.
C28_Witness ==
    /\ frame.at = "return"
    /\ ~frame.paused
    /\ frame.MAX_CYCLES_PER_FRAME = 33
    /\ Len(calls) = 9
    /\ calls[9].op = 126
    /\ frame.frame_cycles = 39
    /\ fault = "none"

-----------------------------------------------------------------------------
\* the four files are there and have 0x0800 bytes each
RomComplete(rom) ==
    \A file \in {rom.h, rom.g, rom.f, rom.e} :
        file.found /\ DOMAIN file.bytes = 0..(ROM_FILE_SIZE - 1)

\* C29: after load_rom, memory 0x0000..0x07FF holds the bytes of invaders.h,
\* 0x0800..0x0FFF those of invaders.g, 0x1000..0x17FF those of invaders.f
\* and 0x1800..0x1FFF those of invaders.e, each in file order, and memory at
\* 0x2000..0xFFFF is unchanged.
C29_LoadRom ==
    \A i \in DOMAIN calls :
        (calls[i].how = "load_rom" /\ RomComplete(calls[i].op)) =>
            LET rom == calls[i].op
                pre == calls[i].pre
                post == Post(i)
            IN  /\ calls[i].fault = "none"
                /\ \A x \in 0..(ROM_FILE_SIZE - 1) :
                       /\ Mem(post, x) = rom.h.bytes[x]
                       /\ Mem(post, ROM_FILE_SIZE + x) = rom.g.bytes[x]
                       /\ Mem(post, 2 * ROM_FILE_SIZE + x) = rom.f.bytes[x]
                       /\ Mem(post, 3 * ROM_FILE_SIZE + x) = rom.e.bytes[x]
                /\ SameMemoryExcept(pre, post, 0..(ROM_END - 1))

-----------------------------------------------------------------------------
\* C30: push-word of w with stack pointer s writes the high byte of w at
\* address (s - 1) mod 65536 and the low byte at (s - 2) mod 65536, leaves
\* the stack pointer at (s - 2) mod 65536 and changes no other memory byte;
\* push-byte decrements the pointer before writing and pop-byte reads before
\* incrementing.
C30_StackLayout ==
    \A i \in DOMAIN calls :
        LET pre == calls[i].pre
            post == Post(i)
            s == pre.stack_pointer
        IN  /\ calls[i].how = "push_word_to_stack" =>
                LET w == calls[i].op[1] IN
                /\ calls[i].fault = "none"
                /\ Mem(post, (s - 1) % 65536) = w \div 256
                /\ Mem(post, (s - 2) % 65536) = w % 256
                /\ post.stack_pointer = (s - 2) % 65536
                /\ SameMemoryExcept(pre, post, {(s - 1) % 65536, (s - 2) % 65536})
            /\ calls[i].how = "push_byte_to_stack" =>
                /\ calls[i].fault = "none"
                /\ Mem(post, (s - 1) % 65536) = calls[i].op[1]
                /\ post.stack_pointer = (s - 1) % 65536
                /\ SameMemoryExcept(pre, post, {(s - 1) % 65536})
            /\ calls[i].how = "pop_byte_from_stack" =>
                /\ calls[i].fault = "none"
                /\ calls[i].cycles = Mem(pre, s)
                /\ post.stack_pointer = (s + 1) % 65536
                /\ post.memory = pre.memory

\* A byte was popped from 0 (the pointer became 1), then 0x1234 was pushed:
\* 0x12 is at 0x0000, 0x34 at 0xFFFF, and the pointer is 0xFFFF.
C30_Witness ==
    /\ Len(calls) = 2
    /\ calls[1].how = "pop_byte_from_stack"
    /\ calls[2].how = "push_word_to_stack"
    /\ calls[2].op = <<4660>>
    /\ calls[2].pre.stack_pointer = 1
    /\ Mem(Cur, 0) = 18
    /\ Mem(Cur, 65535) = 52
    /\ stack_pointer = 65535

-----------------------------------------------------------------------------
\* the number a packed-BCD byte encodes, and the packed-BCD byte of a number
\* below 100
Decimal(b) == 10 * (b \div 16) + (b % 16)
Bcd(n) == 16 * (n \div 10) + (n % 10)

\* calls i and i + 1 are ADD B and DAA on packed-BCD bytes x (in A) and y (in B)
BcdAddAt(i) ==
    /\ i < Len(calls)
    /\ Executed(i, {128})
    /\ Executed(i + 1, {39})
    /\ A_(calls[i].pre) \in BcdBytes
    /\ Operand(calls[i].pre, 0) \in BcdBytes

\* the decimal sum of the two bytes ADD B added at call i
BcdSum(i) == Decimal(A_(calls[i].pre)) + Decimal(Operand(calls[i].pre, 0))

\* C31: for any two valid packed-BCD bytes x and y, ADD of y to the
\* accumulator x and then DAA leaves the accumulator holding the packed-BCD
\* encoding of (x + y) mod 100 and the Carry flag set iff the decimal sum
\* x + y is at least 100.
C31_BcdAdd ==
    \A i \in DOMAIN calls :
        BcdAddAt(i) =>
            /\ calls[i + 1].fault = "none"
            /\ A_(Post(i + 1)) = Bcd(BcdSum(i) % 100)
            /\ Carry(Post(i + 1)) <=> BcdSum(i) >= 100

-----------------------------------------------------------------------------
\* C32: in every state reachable from the zeroed initial state by any
\* sequence of execute() calls, the Zero and Sign flags are never both set,
\* and whenever the Zero flag is set the Parity flag is set too.
C32_ZeroSignParity ==
    /\ ~(Zero(Cur) /\ Sign(Cur))
    /\ Zero(Cur) => Parity(Cur)

\* From the zeroed state DCR B left B = 0xFF with Sign set and SUB M took
\* the byte at HL = 0, the opcode 0x05, from A = 0, leaving 0xFB with Sign
\* set; XRA A then left A = 0 with Zero and Parity set and Sign clear.
C32_Witness ==
    /\ Len(calls) = 3
    /\ calls[1].op = 5
    /\ calls[2].op = 150
    /\ calls[3].op = 175
    /\ Sign(calls[3].pre)
    /\ ~Zero(calls[3].pre)
    /\ A_(calls[3].pre) = 251
    /\ Zero(Cur)
    /\ Parity(Cur)
    /\ ~Sign(Cur)

-----------------------------------------------------------------------------
-----------------------------------------------------------------------------
\* C34: the stack pointer keeps its initial value 0 in every state reachable
\* by any sequence of execute() calls: no instruction that execute() can
\* complete changes the stack pointer.
C34_StackPointerStays ==
    /\ stack_pointer = 0
    /\ \A i \in DOMAIN calls :
           Post(i).stack_pointer = calls[i].pre.stack_pointer

\* From the zeroed state CMA left A = 0xFF, MOV B,A copied it to B and
\* STAX B stored it at the address BC: the stack pointer is 0 still.
C34_Witness ==
    /\ Len(calls) = 3
    /\ calls[1].op = 47
    /\ calls[2].op = 71
    /\ calls[3].op = 2
    /\ fault = "none"
    /\ A_(Cur) = 255
    /\ Mem(Cur, bc) = 255
    /\ bc # 0
    /\ stack_pointer = 0

-----------------------------------------------------------------------------
\* the operation tags execute() has an arm for
DispatchedTags ==
    {"ADD", "ADC", "ANA", "CMA", "CMC", "DAA", "DCR", "INR", "LDAX", "MOV",
     "NOP", "RAL", "RAR", "RLC", "RRC", "SBB", "STAX", "STC", "SUB", "XRA"}

\* C35: the unhandled-operand fatal error is unreachable through execute():
\* for every table entry whose operation tag execute() dispatches, the
\* handler chosen for that tag has an operand case for the entry's code
\* byte, so no handler reaches its own 'unexpected code' failure.
C35_NoUnhandledOperand ==
    /\ \A i \in DOMAIN calls :
           calls[i].how = "execute" => calls[i].fault # "unhandled"
    /\ \A c \in DOMAIN OPCODE_MAP :
           IF OPCODE_MAP[c].operation \in DispatchedTags
           THEN dispatch(Cur, OPCODE_MAP[c]).fault = "none"
           ELSE dispatch(Cur, OPCODE_MAP[c]).fault = "unexpected"

\* In a frame STAX B stored A = 0x9B at the address BC and LDAX B, one of the
\* two codes of do_load_accumulator, took it back; the other, LDAX D, has
\* its operand case as well.
C35_Witness ==
    /\ Len(calls) = 2
    /\ calls[1].op = 2
    /\ calls[2].op = 10
    /\ OPCODE_MAP[10].operation = "LDAX"
    /\ fault = "none"
    /\ A_(Cur) = 155
    /\ Mem(Cur, bc) = 155
    /\ dispatch(Cur, OPCODE_MAP[26]).fault = "none"

-----------------------------------------------------------------------------
\* call i is an execute() that ended in a panic
FatalAt(i) == calls[i].how = "execute" /\ calls[i].fault # "none"

\* C36 as stated: whenever execute() ends in a fatal error of any kind (byte
\* absent from the table, or byte present in the table but with an operation
\* tag that has no dispatch arm), every register, flag, PC, SP and memory
\* byte equals its value before the call.
C36_FatalLeavesAll ==
    \A i \in DOMAIN calls :
        FatalAt(i) => Post(i) = calls[i].pre

\* C36, amended: whenever execute() ends in a fatal error, every register,
\* flag, SP and memory byte equals its value before the call; PC equals its
\* value before the call when the byte is absent from the table, and that
\* value plus 1 (mod 65536) when the byte is in the table but its operation
\* tag has no dispatch arm.
C36_FatalLeavesAllButPc ==
    \A i \in DOMAIN calls :
        FatalAt(i) =>
            /\ calls[i].fault =
                   (IF calls[i].op \in DOMAIN OPCODE_MAP THEN "unexpected"
                    ELSE "unrecognized")
            /\ Post(i) = [calls[i].pre EXCEPT !.program_counter =
                             IF calls[i].fault = "unrecognized" THEN @
                             ELSE (@ + 1) % 65536]

\* ORA B, in the table but without an arm, was met at 0xFFFF: the panic left
\* PC at 0 and everything else as it was.
C36_Witness ==
    /\ Len(calls) = 1
    /\ calls[1].op = 176
    /\ calls[1].pre.program_counter = 65535
    /\ fault = "unexpected"
    /\ program_counter = 0
    /\ Cur = [calls[1].pre EXCEPT !.program_counter = 0]
    /\ A_(Cur) = 155

-----------------------------------------------------------------------------
\* calls i and i + 1 are the instructions `first` and `then`
Pairwise(i, first, then) ==
    /\ i < Len(calls)
    /\ Executed(i, {first})
    /\ Executed(i + 1, {then})

\* C37: for every accumulator value and Carry value, RAL followed
\* immediately by RAR (and RAR followed by RAL) restores both the
\* accumulator and the Carry flag, and RLC followed immediately by RRC (and
\* RRC followed by RLC) restores the accumulator.
C37_RotateBack ==
    \A i \in DOMAIN calls :
        /\ (Pairwise(i, RAL_CODE, RAR_CODE) \/ Pairwise(i, RAR_CODE, RAL_CODE)) =>
               /\ calls[i + 1].fault = "none"
               /\ A_(Post(i + 1)) = A_(calls[i].pre)
               /\ Carry(Post(i + 1)) <=> Carry(calls[i].pre)
        /\ (Pairwise(i, RLC_CODE, RRC_CODE) \/ Pairwise(i, RRC_CODE, RLC_CODE)) =>
               /\ calls[i + 1].fault = "none"
               /\ A_(Post(i + 1)) = A_(calls[i].pre)

\* RAL took 0x9B with Carry clear to 0x36 with Carry set, and RAR brought
\* 0x9B and the clear Carry back.
C37_Witness ==
    /\ Len(calls) = 2
    /\ Pairwise(1, RAL_CODE, RAR_CODE)
    /\ A_(calls[1].pre) = 155
    /\ ~Carry(calls[1].pre)
    /\ A_(calls[2].pre) = 54
    /\ Carry(calls[2].pre)
    /\ A_(Cur) = 155
    /\ ~Carry(Cur)

=============================================================================
